---- MODULE Spec2Model ----
(***************************************************************************)
(* Model of the jsonutil path engine of go-toolkit (src/unnamed/part_000), *)
(* followed by the models of concurrency.Semaphore (SemSpec), of           *)
(* file.ReadLinesChannel (StreamSpec, FairStreamSpec), of                  *)
(* stringutil.SnakeToCamel (StringSpec), of slice.Chunk (SliceSpec) and of *)
(* file.ReadChunksChannel (ChunkSpec).                                     *)
(*                                                                         *)
(* A JSON tree is a tagged record:                                         *)
(*   [k |-> "null"]                 nil                                    *)
(*   [k |-> "bool",   b |-> ...]    bool                                   *)
(*   [k |-> "number", n |-> ...]    float64 holding an integer             *)
(*   [k |-> "string", s |-> ...]    string, a sequence of characters       *)
(*   [k |-> "object", m |-> ...]    map[string]interface{}: key -> tree    *)
(*   [k |-> "array",  e |-> ...]    []interface{}: sequence of trees       *)
(* A string (path, key, segment) is a sequence of one-character strings.   *)
(* Maps and slices are reference types in Go; the trees of the model have  *)
(* no node shared between two places, so an in-place write through the     *)
(* reference GetValueByPath returned is the replacement of the node at the *)
(* location (the sequence of map keys and slice indices) that the          *)
(* navigation followed.                                                    *)
(***************************************************************************)
EXTENDS Integers, Sequences, FiniteSets, TLC

\* ------------------------------------------------------------------------
\* Bounds
\* ------------------------------------------------------------------------
\* longest path string enumerated exhaustively over Alphabet
MaxPathLen == 4

\* ------------------------------------------------------------------------
\* Strings
\* ------------------------------------------------------------------------
Digits == <<"0", "1", "2", "3", "4", "5", "6", "7", "8", "9">>

IsDigit(c) == \E i \in 1..10 : Digits[i] = c

DigitVal(c) == (CHOOSE i \in 1..10 : Digits[i] = c) - 1

\* strings.HasPrefix(s, "[") / strings.HasSuffix(s, "]") on one character
HasPrefix(s, c) == Len(s) >= 1 /\ s[1] = c

HasSuffix(s, c) == Len(s) >= 1 /\ s[Len(s)] = c

\* strings.Index(s, c) for a one-character c: 0-based position, -1 if absent
Index(s, c) ==
    IF \E i \in 1..Len(s) : s[i] = c
    THEN (CHOOSE i \in 1..Len(s) : s[i] = c /\ \A j \in 1..(i - 1) : s[j] # c) - 1
    ELSE -1

\* Go's s[lo:hi] with 0-based bounds, 0 <= lo <= hi <= len(s)
Slice(s, lo, hi) == [i \in 1..(hi - lo) |-> s[lo + i]]

\* strings.Contains(s, sub)
Contains(s, sub) ==
    \E i \in 0..(Len(s) - Len(sub)) : \A j \in 1..Len(sub) : s[i + j] = sub[j]

RECURSIVE Join(_, _)
\* strings.Join(parts, sep)
Join(parts, sep) ==
    IF Len(parts) = 0 THEN <<>>
    ELSE IF Len(parts) = 1 THEN parts[1]
    ELSE parts[1] \o sep \o Join(Tail(parts), sep)

RECURSIVE DigitsValue(_, _)
\* value of a run of decimal digits, most significant first
DigitsValue(s, acc) ==
    IF Len(s) = 0 THEN acc ELSE DigitsValue(Tail(s), 10 * acc + DigitVal(s[1]))

\* strconv.Atoi: optional sign, then one or more decimal digits; anything
\* else is an error.  (The range error needs 19 digits or more, longer than
\* any segment here.)
Atoi(s) ==
    LET signed == Len(s) >= 1 /\ s[1] \in {"+", "-"}
        body   == IF signed THEN Tail(s) ELSE s
    IN  IF Len(body) = 0 \/ \E i \in 1..Len(body) : ~IsDigit(body[i])
        THEN [n |-> 0, err |-> TRUE]
        ELSE [n |-> IF signed /\ s[1] = "-" THEN 0 - DigitsValue(body, 0)
                    ELSE DigitsValue(body, 0),
              err |-> FALSE]

RECURSIVE NatToStr(_)
NatToStr(n) ==
    IF n < 10 THEN <<Digits[n + 1]>> ELSE NatToStr(n \div 10) \o <<Digits[(n % 10) + 1]>>

\* strconv.Itoa / fmt "%d" / FormatFloat(v, 'f', -1, 64) of an integer
Itoa(n) == IF n < 0 THEN <<"-">> \o NatToStr(0 - n) ELSE NatToStr(n)

\* ------------------------------------------------------------------------
\* Tree values
\* ------------------------------------------------------------------------
Null == [k |-> "null"]
Bool(b) == [k |-> "bool", b |-> b]
Num(n) == [k |-> "number", n |-> n]
Str(s) == [k |-> "string", s |-> s]
Obj(m) == [k |-> "object", m |-> m]
Arr(e) == [k |-> "array", e |-> e]

IsObj(v) == v.k = "object"
IsArr(v) == v.k = "array"
IsNull(v) == v.k = "null"

\* the empty map and maps of one and two entries
NoKeys == <<>>
One(k1, v1) == [x \in {k1} |-> v1]
Two(k1, v1, k2, v2) == [x \in {k1, k2} |-> IF x = k1 THEN v1 ELSE v2]

\* ------------------------------------------------------------------------
\* Tokenizer
\* ------------------------------------------------------------------------
RECURSIVE parsePathFrom_Combined(_, _, _, _, _)
\* parsePathFrom changed to keep a key and the bracket that follows it in one
\* segment ("key[0]"), writing '[' and ']' through to the builder
parsePathFrom_Combined(path, i, parts, current, inBrackets) ==
    IF i > Len(path)
    THEN IF Len(current) > 0 THEN Append(parts, current) ELSE parts
    ELSE LET char == path[i] IN
         IF char = "." /\ ~inBrackets
         THEN IF Len(current) > 0
              THEN parsePathFrom_Combined(path, i + 1, Append(parts, current), <<>>, FALSE)
              ELSE parsePathFrom_Combined(path, i + 1, parts, current, FALSE)
         ELSE IF char = "["
         THEN parsePathFrom_Combined(path, i + 1, parts, Append(current, char), TRUE)
         ELSE IF char = "]"
         THEN parsePathFrom_Combined(path, i + 1, parts, Append(current, char), FALSE)
         ELSE parsePathFrom_Combined(path, i + 1, parts, Append(current, char), inBrackets)

RECURSIVE parsePathFrom(_, _, _, _, _)
\* the loop of parsePath from character i on, with the parts emitted so far,
\* the builder's contents and the inBrackets flag
parsePathFrom(path, i, parts, current, inBrackets) ==
    IF i > Len(path)
    THEN IF Len(current) > 0 THEN Append(parts, current) ELSE parts
    ELSE LET char == path[i] IN
         IF char = "."
         THEN IF ~inBrackets
              THEN IF Len(current) > 0
                   THEN parsePathFrom(path, i + 1, Append(parts, current), <<>>, inBrackets)
                   ELSE parsePathFrom(path, i + 1, parts, current, inBrackets)
              ELSE parsePathFrom(path, i + 1, parts, Append(current, char), inBrackets)
         ELSE IF char = "["
         THEN IF Len(current) > 0
              THEN parsePathFrom(path, i + 1, Append(parts, current), <<>>, TRUE)
              ELSE parsePathFrom(path, i + 1, parts, current, TRUE)
         ELSE IF char = "]"
         THEN IF inBrackets
              THEN parsePathFrom(path, i + 1,
                                 Append(parts, <<"[">> \o current \o <<"]">>), <<>>, FALSE)
              ELSE parsePathFrom(path, i + 1, parts, current, inBrackets)
         ELSE parsePathFrom(path, i + 1, parts, Append(current, char), inBrackets)

parsePath(path) == parsePathFrom(path, 1, <<>>, <<>>, FALSE)

\* ------------------------------------------------------------------------
\* Segment parser
\* ------------------------------------------------------------------------
\* parsePart returns (key, index, isArray); panic is set where the slice
\* expression part[idx+1 : strings.Index(part, "]")] is out of range.
parsePart(part) ==
    IF HasPrefix(part, "[") /\ HasSuffix(part, "]")
    THEN LET indexStr == Slice(part, 1, Len(part) - 1)
             r == Atoi(indexStr)
         IN  IF r.err
             THEN [key |-> <<>>, index |-> -1, isArray |-> FALSE, panic |-> FALSE]
             ELSE [key |-> <<>>, index |-> r.n, isArray |-> TRUE, panic |-> FALSE]
    ELSE LET idx == Index(part, "[") IN
         IF idx # -1
         THEN LET close == Index(part, "]") IN
              IF close < idx + 1
              THEN [key |-> Slice(part, 0, idx), index |-> -1, isArray |-> FALSE,
                    panic |-> TRUE]
              ELSE LET r == Atoi(Slice(part, idx + 1, close)) IN
                   IF r.err
                   THEN [key |-> Slice(part, 0, idx), index |-> -1, isArray |-> FALSE,
                         panic |-> FALSE]
                   ELSE [key |-> Slice(part, 0, idx), index |-> r.n, isArray |-> TRUE,
                         panic |-> FALSE]
         ELSE [key |-> part, index |-> -1, isArray |-> FALSE, panic |-> FALSE]

\* ------------------------------------------------------------------------
\* Navigator
\* ------------------------------------------------------------------------
NoErr == "nil"

\* a step of a location: into the entry of a map, or into the element of a
\* slice (0-based, as in the code)
KeyStep(key) == [key |-> key]
IdxStep(i) == [idx |-> i]
IsKeyStep(st) == DOMAIN st = {"key"}

Fault(kind) == [val |-> Null, err |-> kind, loc |-> <<>>]

\* the scan changed to keep the last element that has the key
FirstWithKey_Last(e, key) ==
    LET has(j) == IsObj(e[j]) /\ key \in DOMAIN e[j].m IN
    IF \E j \in 1..Len(e) : has(j)
    THEN CHOOSE j \in 1..Len(e) : has(j) /\ \A h \in (j + 1)..Len(e) : ~has(h)
    ELSE 0

\* the first element, in index order, that is a map holding key; 0 if none
FirstWithKey(e, key) ==
    LET has(j) == IsObj(e[j]) /\ key \in DOMAIN e[j].m IN
    IF \E j \in 1..Len(e) : has(j)
    THEN CHOOSE j \in 1..Len(e) : has(j) /\ \A h \in 1..(j - 1) : ~has(h)
    ELSE 0

RECURSIVE navigate_OffByOne(_, _, _, _)
\* navigate with the bounds check written index > len(v): the index len(v)
\* passes the check and v[index] aborts
navigate_OffByOne(current, parts, i, loc) ==
    IF i > Len(parts) THEN [val |-> current, err |-> NoErr, loc |-> loc]
    ELSE IF IsNull(current) THEN Fault("ValueIsNil")
    ELSE IF IsObj(current)
    THEN LET p == parsePart(parts[i]) IN
         IF p.panic THEN Fault("panic")
         ELSE IF p.isArray THEN Fault("ArrayIndexOnMap")
         ELSE IF p.key \notin DOMAIN current.m THEN Fault("KeyNotFound")
         ELSE navigate_OffByOne(current.m[p.key], parts, i + 1, Append(loc, KeyStep(p.key)))
    ELSE IF IsArr(current)
    THEN LET p == parsePart(parts[i]) IN
         IF p.panic THEN Fault("panic")
         ELSE IF p.isArray
         THEN IF p.index < 0 \/ p.index > Len(current.e)
              THEN Fault("IndexOutOfRange")
              ELSE IF p.index = Len(current.e) THEN Fault("panic")
              ELSE navigate_OffByOne(current.e[p.index + 1], parts, i + 1,
                                     Append(loc, IdxStep(p.index)))
         ELSE LET j == FirstWithKey(current.e, p.key) IN
              IF j = 0 THEN Fault("KeyNotFoundInArray")
              ELSE navigate_OffByOne(current.e[j].m[p.key], parts, i + 1,
                                     loc \o <<IdxStep(j - 1), KeyStep(p.key)>>)
    ELSE Fault("CannotTraverse")

RECURSIVE navigate(_, _, _, _)
\* the loop of GetValueByPath from parts[i] on; loc is the location of
\* current below the data the call was given
navigate(current, parts, i, loc) ==
    IF i > Len(parts) THEN [val |-> current, err |-> NoErr, loc |-> loc]
    ELSE IF IsNull(current) THEN Fault("ValueIsNil")
    ELSE IF IsObj(current)
    THEN LET p == parsePart(parts[i]) IN
         IF p.panic THEN Fault("panic")
         ELSE IF p.isArray THEN Fault("ArrayIndexOnMap")
         ELSE IF p.key \notin DOMAIN current.m THEN Fault("KeyNotFound")
         ELSE navigate(current.m[p.key], parts, i + 1, Append(loc, KeyStep(p.key)))
    ELSE IF IsArr(current)
    THEN LET p == parsePart(parts[i]) IN
         IF p.panic THEN Fault("panic")
         ELSE IF p.isArray
         THEN IF p.index < 0 \/ p.index >= Len(current.e)
              THEN Fault("IndexOutOfRange")
              ELSE navigate(current.e[p.index + 1], parts, i + 1,
                            Append(loc, IdxStep(p.index)))
         ELSE LET j == FirstWithKey(current.e, p.key) IN
              IF j = 0 THEN Fault("KeyNotFoundInArray")
              ELSE navigate(current.e[j].m[p.key], parts, i + 1,
                            loc \o <<IdxStep(j - 1), KeyStep(p.key)>>)
    ELSE Fault("CannotTraverse")

\* GetValueByPath changed to send the empty path through the traversal, which
\* rejects a nil value
GetValueByPath_Traverse(data, path) ==
    IF path = <<>> /\ IsNull(data) THEN Fault("ValueIsNil")
    ELSE IF path = <<>> THEN [val |-> data, err |-> NoErr, loc |-> <<>>]
    ELSE navigate(data, parsePath(path), 1, <<>>)

\* GetValueByPath(data, path) = (val, err); loc is where val sits in data
GetValueByPath(data, path) ==
    IF path = <<>> THEN [val |-> data, err |-> NoErr, loc |-> <<>>]
    ELSE navigate(data, parsePath(path), 1, <<>>)

\* HasPath changed to take a nil value for a missing one
HasPath_NonNil(data, path) ==
    GetValueByPath(data, path).err = NoErr /\ ~IsNull(GetValueByPath(data, path).val)

\* HasPath(data, path)
HasPath(data, path) == GetValueByPath(data, path).err = NoErr

\* ------------------------------------------------------------------------
\* Mutator
\* ------------------------------------------------------------------------
\* the map m after m[key] = value
MapPut(m, key, value) ==
    [x \in (DOMAIN m) \cup {key} |-> IF x = key THEN value ELSE m[x]]

\* setValueAtPath with the bounds check written index <= 0
setValueAtPath_IndexFrom1(data, part, value) ==
    LET p == parsePart(part) IN
    IF p.panic THEN [data |-> data, err |-> "panic"]
    ELSE IF IsObj(data)
    THEN IF p.isArray THEN [data |-> data, err |-> "ArrayIndexOnMap"]
         ELSE [data |-> Obj(MapPut(data.m, p.key, value)), err |-> NoErr]
    ELSE IF IsArr(data)
    THEN IF p.isArray
         THEN IF p.index <= 0 \/ p.index >= Len(data.e)
              THEN [data |-> data, err |-> "IndexOutOfRange"]
              ELSE [data |-> Arr([data.e EXCEPT ![p.index + 1] = value]), err |-> NoErr]
         ELSE [data |-> data, err |-> "CannotSetKeyOnArray"]
    ELSE [data |-> data, err |-> "CannotSetOnType"]

\* setValueAtPath changed to append when the index is the length of the array
setValueAtPath_Grow(data, part, value) ==
    LET p == parsePart(part) IN
    IF p.panic THEN [data |-> data, err |-> "panic"]
    ELSE IF IsObj(data)
    THEN IF p.isArray THEN [data |-> data, err |-> "ArrayIndexOnMap"]
         ELSE [data |-> Obj(MapPut(data.m, p.key, value)), err |-> NoErr]
    ELSE IF IsArr(data)
    THEN IF p.isArray
         THEN IF p.index < 0 \/ p.index > Len(data.e)
              THEN [data |-> data, err |-> "IndexOutOfRange"]
              ELSE IF p.index = Len(data.e)
              THEN [data |-> Arr(Append(data.e, value)), err |-> NoErr]
              ELSE [data |-> Arr([data.e EXCEPT ![p.index + 1] = value]), err |-> NoErr]
         ELSE [data |-> data, err |-> "CannotSetKeyOnArray"]
    ELSE [data |-> data, err |-> "CannotSetOnType"]

\* setValueAtPath changed to treat a key on an array as GetValueByPath does:
\* it writes into the first element that is a map holding the key
setValueAtPath_Scan(data, part, value) ==
    LET p == parsePart(part) IN
    IF p.panic THEN [data |-> data, err |-> "panic"]
    ELSE IF IsObj(data)
    THEN IF p.isArray THEN [data |-> data, err |-> "ArrayIndexOnMap"]
         ELSE [data |-> Obj(MapPut(data.m, p.key, value)), err |-> NoErr]
    ELSE IF IsArr(data)
    THEN IF p.isArray
         THEN IF p.index < 0 \/ p.index >= Len(data.e)
              THEN [data |-> data, err |-> "IndexOutOfRange"]
              ELSE [data |-> Arr([data.e EXCEPT ![p.index + 1] = value]), err |-> NoErr]
         ELSE LET j == FirstWithKey(data.e, p.key) IN
              IF j = 0 THEN [data |-> data, err |-> "CannotSetKeyOnArray"]
              ELSE [data |-> Arr([data.e EXCEPT
                                     ![j] = Obj(MapPut(data.e[j].m, p.key, value))]),
                    err |-> NoErr]
    ELSE [data |-> data, err |-> "CannotSetOnType"]

\* setValueAtPath, were the entry of a map written before the segment is
\* found to be an index
setValueAtPath_WriteFirst(data, part, value) ==
    LET p == parsePart(part) IN
    IF p.panic THEN [data |-> data, err |-> "panic"]
    ELSE IF IsObj(data)
    THEN IF p.isArray
         THEN [data |-> Obj(MapPut(data.m, p.key, value)), err |-> "ArrayIndexOnMap"]
         ELSE [data |-> Obj(MapPut(data.m, p.key, value)), err |-> NoErr]
    ELSE IF IsArr(data)
    THEN IF p.isArray
         THEN IF p.index < 0 \/ p.index >= Len(data.e)
              THEN [data |-> data, err |-> "IndexOutOfRange"]
              ELSE [data |-> Arr([data.e EXCEPT ![p.index + 1] = value]), err |-> NoErr]
         ELSE [data |-> data, err |-> "CannotSetKeyOnArray"]
    ELSE [data |-> data, err |-> "CannotSetOnType"]

\* setValueAtPath(data, part, value): data after the call, and the error
setValueAtPath(data, part, value) ==
    LET p == parsePart(part) IN
    IF p.panic THEN [data |-> data, err |-> "panic"]
    ELSE IF IsObj(data)
    THEN IF p.isArray THEN [data |-> data, err |-> "ArrayIndexOnMap"]
         ELSE [data |-> Obj(MapPut(data.m, p.key, value)), err |-> NoErr]
    ELSE IF IsArr(data)
    THEN IF p.isArray
         THEN IF p.index < 0 \/ p.index >= Len(data.e)
              THEN [data |-> data, err |-> "IndexOutOfRange"]
              ELSE [data |-> Arr([data.e EXCEPT ![p.index + 1] = value]), err |-> NoErr]
         ELSE [data |-> data, err |-> "CannotSetKeyOnArray"]
    ELSE [data |-> data, err |-> "CannotSetOnType"]

RECURSIVE ReplaceAt(_, _, _)
\* the tree t with the node at location loc replaced by node: what a write
\* through the reference to that node leaves behind
ReplaceAt(t, loc, node) ==
    IF Len(loc) = 0 THEN node
    ELSE IF IsKeyStep(loc[1])
    THEN Obj([t.m EXCEPT ![loc[1].key] = ReplaceAt(t.m[loc[1].key], Tail(loc), node)])
    ELSE Arr([t.e EXCEPT ![loc[1].idx + 1] =
                  ReplaceAt(t.e[loc[1].idx + 1], Tail(loc), node)])

\* SetValueByPath without the check for a path of zero segments: the slice
\* expression parts[:len(parts)-1] then aborts the call
SetValueByPath_NoSegmentCheck(data, path, value) ==
    IF path = <<>> THEN [tree |-> data, err |-> "PathEmpty", ploc |-> <<>>]
    ELSE LET parts == parsePath(path) IN
         IF Len(parts) = 0 THEN [tree |-> data, err |-> "panic", ploc |-> <<>>]
         ELSE IF Len(parts) = 1
         THEN LET r == setValueAtPath(data, parts[1], value) IN
              [tree |-> r.data, err |-> r.err, ploc |-> <<>>]
         ELSE LET parentPath == Join(SubSeq(parts, 1, Len(parts) - 1), <<".">>)
                  lastPart == parts[Len(parts)]
                  parent == GetValueByPath(data, parentPath)
              IN  IF parent.err = "panic"
                  THEN [tree |-> data, err |-> "panic", ploc |-> <<>>]
                  ELSE IF parent.err # NoErr
                  THEN [tree |-> data, err |-> "FailedToGetParent", ploc |-> <<>>]
                  ELSE LET r == setValueAtPath(parent.val, lastPart, value) IN
                       [tree |-> ReplaceAt(data, parent.loc, r.data), err |-> r.err,
                        ploc |-> parent.loc]

\* SetValueByPath(data, path, value): the tree after the call, and the error.
\* ploc is the location of the container that was handed to setValueAtPath.
SetValueByPath(data, path, value) ==
    IF path = <<>> THEN [tree |-> data, err |-> "PathEmpty", ploc |-> <<>>]
    ELSE LET parts == parsePath(path) IN
         IF Len(parts) = 0 THEN [tree |-> data, err |-> "InvalidPath", ploc |-> <<>>]
         ELSE IF Len(parts) = 1
         THEN LET r == setValueAtPath(data, parts[1], value) IN
              [tree |-> r.data, err |-> r.err, ploc |-> <<>>]
         ELSE LET parentPath == Join(SubSeq(parts, 1, Len(parts) - 1), <<".">>)
                  lastPart == parts[Len(parts)]
                  parent == GetValueByPath(data, parentPath)
              IN  IF parent.err = "panic"
                  THEN [tree |-> data, err |-> "panic", ploc |-> <<>>]
                  ELSE IF parent.err # NoErr
                  THEN [tree |-> data, err |-> "FailedToGetParent", ploc |-> <<>>]
                  ELSE LET r == setValueAtPath(parent.val, lastPart, value) IN
                       [tree |-> ReplaceAt(data, parent.loc, r.data), err |-> r.err,
                        ploc |-> parent.loc]

\* ------------------------------------------------------------------------
\* Converter
\* ------------------------------------------------------------------------
\* the characters of the model in ascending byte order
ByteOrder ==
    <<"-", ".", "0", "1", "2", "3", "4", "5", "6", "7", "8", "9", "J", "[", "]",
      "a", "b", "e", "i", "m", "n", "r", "s", "t", "u", "x">>

Byte(c) == CHOOSE i \in 1..Len(ByteOrder) : ByteOrder[i] = c

\* s < t in the byte-wise order sort.Strings uses
StrLess(s, t) ==
    \E i \in 1..(Len(t)) :
        /\ \A j \in 1..(i - 1) : j <= Len(s) /\ s[j] = t[j]
        /\ (i > Len(s) \/ Byte(s[i]) < Byte(t[i]))

\* the keys of a map in the order encoding/json writes them
SortedKeys(m) ==
    LET K == DOMAIN m
        rank(key) == Cardinality({o \in K : StrLess(o, key)}) + 1
    IN  [i \in 1..Cardinality(K) |-> CHOOSE key \in K : rank(key) = i]

RECURSIVE Marshal(_)
\* json.Marshal(v) as text; no character of the model needs escaping
Marshal(v) ==
    CASE v.k = "null" -> <<"n", "u", "l", "l">>
      [] v.k = "bool" -> IF v.b THEN <<"t", "r", "u", "e">> ELSE <<"f", "a", "l", "s", "e">>
      [] v.k = "number" -> Itoa(v.n)
      [] v.k = "string" -> <<"\"">> \o v.s \o <<"\"">>
      [] v.k = "object" ->
           LET ks == SortedKeys(v.m)
               entry(i) == <<"\"">> \o ks[i] \o <<"\"", ":">> \o Marshal(v.m[ks[i]])
           IN  <<"{">> \o Join([i \in 1..Len(ks) |-> entry(i)], <<",">>) \o <<"}">>
      [] v.k = "array" ->
           <<"[">> \o Join([i \in 1..Len(v.e) |-> Marshal(v.e[i])], <<",">>) \o <<"]">>

\* convertToString(value)
convertToString(value) ==
    CASE value.k = "null" -> <<>>
      [] value.k = "string" -> value.s
      [] value.k = "number" -> Itoa(value.n)
      [] value.k = "bool" ->
           IF value.b THEN <<"t", "r", "u", "e">> ELSE <<"f", "a", "l", "s", "e">>
      [] OTHER -> Marshal(value)

\* convertToInt(value); the strings of the model hold no number that is out of
\* the range of int
convertToInt(value) ==
    CASE value.k = "number" -> value.n
      [] value.k = "string" -> IF Atoi(value.s).err THEN 0 ELSE Atoi(value.s).n
      [] OTHER -> 0

\* convertToFloat64(value); among the strings of the model strconv.ParseFloat
\* accepts exactly those Atoi accepts
convertToFloat64(value) ==
    CASE value.k = "number" -> value.n
      [] value.k = "string" -> IF Atoi(value.s).err THEN 0 ELSE Atoi(value.s).n
      [] OTHER -> 0

\* the strings strconv.ParseBool reads as true
ParseBoolTrue ==
    {<<"1">>, <<"t">>, <<"T">>, <<"t", "r", "u", "e">>, <<"T", "R", "U", "E">>,
     <<"T", "r", "u", "e">>}

\* convertToBool(value)
convertToBool(value) ==
    CASE value.k = "bool" -> value.b
      [] value.k = "string" -> value.s \in ParseBoolTrue
      [] value.k = "number" -> value.n # 0
      [] OTHER -> FALSE

\* getValueType(value)
getValueType(value) == value.k

\* ------------------------------------------------------------------------
\* Finder
\* ------------------------------------------------------------------------
\* *FindOptions: nil, or a struct of four strings ("" = filter not set)
NilOptions ==
    [nil |-> TRUE, KeyPattern |-> <<>>, ValuePattern |-> <<>>, ExactValue |-> <<>>,
     ValueType |-> ""]

Options(kp, vp, ev, vt) ==
    [nil |-> FALSE, KeyPattern |-> kp, ValuePattern |-> vp, ExactValue |-> ev,
     ValueType |-> vt]

\* regexp.MatchString(pattern, s) for a pattern of letters and digits only:
\* an unanchored search for the literal text
MatchString(pattern, s) == Contains(s, pattern)

\* matchesOptions changed to match nothing when no filter is set
matchesOptions_NeedsFilter(value, key, options) ==
    IF options.nil THEN FALSE
    ELSE IF /\ options.KeyPattern = <<>>
            /\ options.ValuePattern = <<>>
            /\ options.ExactValue = <<>>
            /\ options.ValueType = ""
    THEN FALSE
    ELSE IF options.KeyPattern # <<>> /\ key # <<>> /\ ~MatchString(options.KeyPattern, key)
    THEN FALSE
    ELSE IF options.ValueType # "" /\ getValueType(value) # options.ValueType
    THEN FALSE
    ELSE IF options.ExactValue # <<>> /\ convertToString(value) # options.ExactValue
    THEN FALSE
    ELSE IF options.ValuePattern # <<>>
            /\ ~MatchString(options.ValuePattern, convertToString(value))
    THEN FALSE
    ELSE TRUE

\* matchesOptions(value, key, options)
matchesOptions(value, key, options) ==
    IF options.nil THEN FALSE
    ELSE IF options.KeyPattern # <<>> /\ key # <<>> /\ ~MatchString(options.KeyPattern, key)
    THEN FALSE
    ELSE IF options.ValueType # "" /\ getValueType(value) # options.ValueType
    THEN FALSE
    ELSE IF options.ExactValue # <<>> /\ convertToString(value) # options.ExactValue
    THEN FALSE
    ELSE IF options.ValuePattern # <<>>
            /\ ~MatchString(options.ValuePattern, convertToString(value))
    THEN FALSE
    ELSE TRUE

\* the orders in which a range statement may visit the keys of a map: Go
\* leaves the order unspecified, so every permutation
KeyOrders(K) ==
    {o \in [1..Cardinality(K) -> K] : \A i, j \in 1..Cardinality(K) : o[i] = o[j] => i = j}

RECURSIVE Chain(_)
\* the concatenations of one sequence drawn from each set of a sequence of sets
Chain(sets) ==
    IF Len(sets) = 0 THEN {<<>>}
    ELSE {h \o t : h \in sets[1], t \in Chain(Tail(sets))}

\* currentPath extended by a map key
KeyPath(currentPath, key) ==
    IF currentPath # <<>> THEN currentPath \o <<".">> \o key ELSE currentPath \o key

\* IndexPath, were the elements numbered from one
IndexPath_FromOne(currentPath, i) == currentPath \o <<"[">> \o Itoa(i + 1) \o <<"]">>

\* fmt.Sprintf("%s[%d]", currentPath, i)
IndexPath(currentPath, i) == currentPath \o <<"[">> \o Itoa(i) \o <<"]">>

RECURSIVE getAllPathsRecursive(_, _)
\* the sequences getAllPathsRecursive(data, currentPath, paths) may append
getAllPathsRecursive(data, currentPath) ==
    IF IsObj(data)
    THEN UNION {Chain([i \in 1..Len(o) |->
                   {<<KeyPath(currentPath, o[i])>> \o r :
                      r \in getAllPathsRecursive(data.m[o[i]], KeyPath(currentPath, o[i]))}])
                : o \in KeyOrders(DOMAIN data.m)}
    ELSE IF IsArr(data)
    THEN Chain([i \in 1..Len(data.e) |->
                   {<<IndexPath(currentPath, i - 1)>> \o r :
                      r \in getAllPathsRecursive(data.e[i], IndexPath(currentPath, i - 1))}])
    ELSE {<<>>}

\* GetAllPaths(data): the results the call may return
GetAllPaths(data) == getAllPathsRecursive(data, <<>>)

RECURSIVE findPathsRecursive(_, _, _)
\* the sequences findPathsRecursive(data, currentPath, options, paths) may
\* append (it never returns an error)
findPathsRecursive(data, currentPath, options) ==
    IF IsObj(data)
    THEN UNION {Chain([i \in 1..Len(o) |->
                   {(IF matchesOptions(data.m[o[i]], o[i], options)
                     THEN <<KeyPath(currentPath, o[i])>> ELSE <<>>) \o r :
                      r \in findPathsRecursive(data.m[o[i]], KeyPath(currentPath, o[i]),
                                               options)}])
                : o \in KeyOrders(DOMAIN data.m)}
    ELSE IF IsArr(data)
    THEN Chain([i \in 1..Len(data.e) |->
                   {(IF matchesOptions(data.e[i], <<>>, options)
                     THEN <<IndexPath(currentPath, i - 1)>> ELSE <<>>) \o r :
                      r \in findPathsRecursive(data.e[i], IndexPath(currentPath, i - 1),
                                               options)}])
    ELSE {<<>>}

\* FindPaths(data, options): the results the call may return
FindPaths(data, options) ==
    findPathsRecursive(data, <<>>, IF options.nil THEN Options(<<>>, <<>>, <<>>, "") ELSE options)

\* GetStringByPath / GetIntByPath / GetFloat64ByPath / GetBoolByPath
GetStringByPath(data, path) ==
    LET r == GetValueByPath(data, path) IN
    IF r.err # NoErr THEN [val |-> Str(<<>>), err |-> r.err]
    ELSE [val |-> Str(convertToString(r.val)), err |-> NoErr]

\* GetIntByPath changed to report a value that is no number as a fault
GetIntByPath_Strict(data, path) ==
    LET r == GetValueByPath(data, path) IN
    IF r.err # NoErr THEN [val |-> Num(0), err |-> r.err]
    ELSE IF r.val.k # "num" THEN [val |-> Num(0), err |-> "NotANumber"]
    ELSE [val |-> Num(convertToInt(r.val)), err |-> NoErr]

GetIntByPath(data, path) ==
    LET r == GetValueByPath(data, path) IN
    IF r.err # NoErr THEN [val |-> Num(0), err |-> r.err]
    ELSE [val |-> Num(convertToInt(r.val)), err |-> NoErr]

GetFloat64ByPath(data, path) ==
    LET r == GetValueByPath(data, path) IN
    IF r.err # NoErr THEN [val |-> Num(0), err |-> r.err]
    ELSE [val |-> Num(convertToFloat64(r.val)), err |-> NoErr]

GetBoolByPath(data, path) ==
    LET r == GetValueByPath(data, path) IN
    IF r.err # NoErr THEN [val |-> Bool(FALSE), err |-> r.err]
    ELSE [val |-> Bool(convertToBool(r.val)), err |-> NoErr]

\* ------------------------------------------------------------------------
\* Inputs
\* ------------------------------------------------------------------------
Alphabet == {"a", ".", "[", "]", "0"}

kA == <<"a">>
kB == <<"b">>
kDot == <<".">>
kUser == <<"u", "s", "e", "r">>
kName == <<"n", "a", "m", "e">>
kItems == <<"i", "t", "e", "m", "s">>

\* {"user":{"name":"J","items":[{"name":"x"}]}}
UserTree ==
    Obj(One(kUser, Obj(Two(kName, Str(<<"J">>),
                           kItems, Arr(<<Obj(One(kName, Str(<<"x">>)))>>)))))

\* {"a":1,"b":[2,3]}
ABTree == Obj(Two(kA, Num(1), kB, Arr(<<Num(2), Num(3)>>)))

\* {"items":[1,2]}
ItemsTree == Obj(One(kItems, Arr(<<Num(1), Num(2)>>)))

\* the trees a behaviour starts from: what json.Unmarshal gives for a
\* selection of documents
InitTrees ==
    {Null, Num(1), Str(<<"x">>), Bool(TRUE), Obj(NoKeys), Arr(<<>>),
     Obj(One(kA, Num(1))),
     Obj(One(kA, Null)),
     Obj(One(kA, Obj(One(kA, Obj(NoKeys))))),
     Obj(One(kA, Arr(<<Num(5), Obj(One(kB, Obj(One(kA, Num(1))))),
                       Obj(Two(kA, Num(1), kB, Num(2))),
                       Obj(One(kA, Num(2)))>>))),
     Arr(<<Obj(One(kA, Num(1))), Null>>),
     Arr(<<Arr(<<Num(1)>>)>>),
     Obj(Two(<<>>, Obj(One(kA, Num(1))), kA, Num(2))),
     Obj(Two(kDot, Obj(One(kA, Num(1))), kA, Num(2))),
     Obj(Two(kA, Str(<<"1", "0">>), kB, Bool(FALSE))),
     UserTree, ABTree, ItemsTree}

\* every string over Alphabet of length up to MaxPathLen
ShortPaths == UNION {[1..n -> Alphabet] : n \in 0..MaxPathLen}

\* longer paths: those of the documentation and of the corner cases
LongPaths ==
    {<<"a", "[", "1", "]">>, <<"[", "1", "]">>, <<"b", "[", "1", "]">>,
     <<"a", "[", "5", "]">>, <<"[", "-", "1", "]">>, <<"a", "[", "-", "1", "]">>,
     <<"[", "+", "0", "]">>, <<"a", "[", "0", "0", "]">>,
     <<"a", "[", "0", "]">>, <<"a", "[", "2", "]", ".", "b">>,
     <<"a", "[", "0", "]", ".", "a">>, <<"a", ".", "a", ".", "a">>,
     <<"[", "0", "]", ".", "a">>, <<"[", "0", "]", "[", "0", "]">>,
     <<"a", ".", "b">>, <<"a", ".", "b", ".", "a">>, <<"a", "[", "1", "]", ".", "b">>,
     <<"b", "[", "2", "]">>, <<"b">>, <<"b", ".", "a">>,
     <<"[", ".", "[", "a">>, <<"[", "a", ".", "[", "0", "]">>,
     <<"[", "]", ".", "a">>, <<"a", "[", "0", "]", "]">>,
     <<"i", "t", "e", "m", "s", "[", "5", "]">>,
     <<"i", "t", "e", "m", "s", "[", "1", "]">>,
     <<"u", "s", "e", "r", ".", "n", "a", "m", "e">>,
     <<"u", "s", "e", "r", ".", "i", "t", "e", "m", "s", ".", "n", "a", "m", "e">>,
     <<"u", "s", "e", "r", ".", "i", "t", "e", "m", "s", "[", "0", "]", ".",
       "n", "a", "m", "e">>}

Paths == ShortPaths \cup LongPaths

\* the values handed to SetValueByPath, besides the value the path holds
SetValues == {Num(7), Null, Obj(NoKeys)}

\* the criteria handed to FindPaths
FindCriteria ==
    {NilOptions,
     Options(<<>>, <<>>, <<>>, ""),
     Options(kName, <<>>, <<>>, ""),
     Options(kA, <<>>, <<>>, ""),
     Options(<<>>, <<"1">>, <<>>, ""),
     Options(<<>>, <<>>, <<"1">>, ""),
     Options(<<>>, <<>>, <<>>, "number"),
     Options(kA, <<>>, <<>>, "object")}

\* ------------------------------------------------------------------------
\* State machine: a caller holding one tree and making one call into the
\* package.  Every operation is a function of the tree and its arguments, so
\* a later call is a first call on the tree the earlier one left.
\* ------------------------------------------------------------------------
VARIABLES
    tree,    \* the tree the caller holds
    told,    \* the tree as it was when the last call was made
    op,      \* the last call
    path,    \* its path argument
    arg,     \* its value argument (SetValueByPath)
    opts,    \* its criteria argument (FindPaths)
    rval,    \* the value it returned
    rerr,    \* the error it returned; "panic" if it aborted
    rpaths,  \* the paths it returned
    pc       \* "call" before the caller's call, "done" after it

\* The other packages of the repository have state machines of their own
\* (further down); a system that is not the one being run stays switched off.
VARIABLES
    maxCount,    \* concurrency: the capacity given to NewSemaphore
    sem,         \* concurrency: the Semaphore, [c, wg]
    routine,     \* concurrency: the goroutines using the semaphore
    mainpc,      \* concurrency: the goroutine that submits and then waits
    pending,     \* concurrency: the goroutines Wait was called on
    bufferSize,  \* file: the capacity given to ReadLinesChannel
    file,        \* file: the lines of the file at filePath
    lines,       \* file: the channel of lines, [buf, closed]
    errChan,     \* file: the channel of the error, [buf, closed]
    producer,    \* file: the goroutine ReadLinesChannel starts
    consumer,    \* file: the caller receiving from both channels
    strCall,     \* string: a call of one function of the package
    sliceCall,   \* slice: a call of one function of the package
    chunkCall,   \* file: the arguments of ReadChunksChannel and the file's bytes
    chunkChans,  \* file: the channels ReadChunksChannel returns, [chunks, errChan]
    reader,      \* file: the goroutine ReadChunksChannel starts
    ranger       \* file: the caller receiving the chunks

pathVars == <<tree, told, op, path, arg, opts, rval, rerr, rpaths, pc>>
semVars == <<maxCount, sem, routine, mainpc, pending>>
linesVars == <<bufferSize, file, lines, errChan, producer, consumer>>
chunkVars == <<chunkCall, chunkChans, reader, ranger>>
streamVars == <<linesVars, chunkVars>>
callVars == <<strCall, sliceCall>>

vars == <<pathVars, semVars, streamVars, callVars>>

PathOff ==
    /\ tree = Null /\ told = Null /\ op = "off" /\ path = <<>> /\ arg = Null
    /\ opts = NilOptions /\ rval = Null /\ rerr = NoErr /\ rpaths = <<>>
    /\ pc = "off"

SemOff ==
    /\ maxCount = 0 /\ sem = [c |-> 0, wg |-> 0] /\ routine = <<>>
    /\ mainpc = "off" /\ pending = {}

LinesOff ==
    /\ bufferSize = 0 /\ file = <<>>
    /\ lines = [buf |-> <<>>, closed |-> FALSE]
    /\ errChan = [buf |-> <<>>, closed |-> FALSE]
    /\ producer = [pc |-> "off"] /\ consumer = [pc |-> "off"]

ChunkOff ==
    /\ chunkCall = [pc |-> "off"] /\ chunkChans = [pc |-> "off"]
    /\ reader = [pc |-> "off"] /\ ranger = [pc |-> "off"]

StreamOff == LinesOff /\ ChunkOff

StringOff == strCall = [pc |-> "off"]

SliceOff == sliceCall = [pc |-> "off"]

Init ==
    /\ SemOff /\ StreamOff /\ StringOff /\ SliceOff
    /\ tree \in InitTrees
    /\ told = tree
    /\ op = "init"
    /\ path = <<>>
    /\ arg = Null
    /\ opts = NilOptions
    /\ rval = Null
    /\ rerr = NoErr
    /\ rpaths = <<>>
    /\ pc = "call"

\* a reading call changed to store what it read in place of the tree
Read_Store(name, p, r) ==
    /\ op' = name
    /\ path' = p
    /\ rval' = r.val
    /\ rerr' = r.err
    /\ told' = tree
    /\ arg' = Null
    /\ opts' = NilOptions
    /\ rpaths' = <<>>
    /\ pc' = "done"
    /\ tree' = r.val
    /\ UNCHANGED <<semVars, streamVars, callVars>>

\* a call that reads: the tree stays, the results are recorded
Read(name, p, r) ==
    /\ op' = name
    /\ path' = p
    /\ rval' = r.val
    /\ rerr' = r.err
    /\ told' = tree
    /\ arg' = Null
    /\ opts' = NilOptions
    /\ rpaths' = <<>>
    /\ pc' = "done"
    /\ UNCHANGED <<tree, semVars, streamVars, callVars>>

CallGetValueByPath ==
    /\ pc = "call"
    /\ \E p \in Paths : Read("GetValueByPath", p, GetValueByPath(tree, p))

CallHasPath ==
    /\ pc = "call"
    /\ \E p \in Paths :
        Read("HasPath", p, [val |-> Bool(HasPath(tree, p)),
                            err |-> IF GetValueByPath(tree, p).err = "panic"
                                    THEN "panic" ELSE NoErr])

CallGetStringByPath ==
    /\ pc = "call"
    /\ \E p \in Paths : Read("GetStringByPath", p, GetStringByPath(tree, p))

CallGetIntByPath ==
    /\ pc = "call"
    /\ \E p \in Paths : Read("GetIntByPath", p, GetIntByPath(tree, p))

CallGetFloat64ByPath ==
    /\ pc = "call"
    /\ \E p \in Paths : Read("GetFloat64ByPath", p, GetFloat64ByPath(tree, p))

CallGetBoolByPath ==
    /\ pc = "call"
    /\ \E p \in Paths : Read("GetBoolByPath", p, GetBoolByPath(tree, p))

CallSetValueByPath ==
    /\ pc = "call"
    /\ \E p \in Paths :
         \E v \in SetValues \cup {GetValueByPath(tree, p).val} :
            LET r == SetValueByPath(tree, p, v) IN
            /\ op' = "SetValueByPath"
            /\ path' = p
            /\ arg' = v
            /\ tree' = r.tree
            /\ rerr' = r.err
            /\ told' = tree
            /\ pc' = "done"
            /\ rval' = Null
            /\ opts' = NilOptions
            /\ rpaths' = <<>>
    /\ UNCHANGED <<semVars, streamVars, callVars>>

CallGetAllPaths ==
    /\ pc = "call"
    /\ \E r \in GetAllPaths(tree) :
        /\ op' = "GetAllPaths"
        /\ rpaths' = r
        /\ told' = tree
        /\ path' = <<>>
        /\ arg' = Null
        /\ opts' = NilOptions
        /\ rval' = Null
        /\ rerr' = NoErr
        /\ pc' = "done"
    /\ UNCHANGED <<tree, semVars, streamVars, callVars>>

CallFindPaths ==
    /\ pc = "call"
    /\ \E o \in FindCriteria :
        \E r \in FindPaths(tree, o) :
            /\ op' = "FindPaths"
            /\ opts' = o
            /\ rpaths' = r
            /\ told' = tree
            /\ path' = <<>>
            /\ arg' = Null
            /\ rval' = Null
            /\ rerr' = NoErr
            /\ pc' = "done"
    /\ UNCHANGED <<tree, semVars, streamVars, callVars>>

Next ==
    \/ CallGetValueByPath
    \/ CallHasPath
    \/ CallGetStringByPath
    \/ CallGetIntByPath
    \/ CallGetFloat64ByPath
    \/ CallGetBoolByPath
    \/ CallSetValueByPath
    \/ CallGetAllPaths
    \/ CallFindPaths

Spec == Init /\ [][Next]_vars

\* ------------------------------------------------------------------------
\* Vocabulary of the properties
\* ------------------------------------------------------------------------
RECURSIVE NodeLocs(_)
\* the locations of all nodes of t, the root (<<>>) included
NodeLocs(t) ==
    {<<>>} \cup
    (IF IsObj(t)
     THEN UNION {{<<KeyStep(key)>> \o l : l \in NodeLocs(t.m[key])} : key \in DOMAIN t.m}
     ELSE IF IsArr(t)
     THEN UNION {{<<IdxStep(i - 1)>> \o l : l \in NodeLocs(t.e[i])} : i \in 1..Len(t.e)}
     ELSE {})

RECURSIVE NodeAt(_, _)
\* the node of t at location loc
NodeAt(t, loc) ==
    IF Len(loc) = 0 THEN t
    ELSE IF IsKeyStep(loc[1]) THEN NodeAt(t.m[loc[1].key], Tail(loc))
    ELSE NodeAt(t.e[loc[1].idx + 1], Tail(loc))

Front(q) == SubSeq(q, 1, Len(q) - 1)
Last(q) == q[Len(q)]
Range(q) == {q[i] : i \in 1..Len(q)}

RECURSIVE PathOf(_)
\* the path of the node at loc: the keys on the way joined with '.', every
\* index written [i] behind what precedes it
PathOf(loc) ==
    IF Len(loc) = 0 THEN <<>>
    ELSE IF IsKeyStep(Last(loc))
    THEN IF Len(loc) = 1 THEN Last(loc).key
         ELSE PathOf(Front(loc)) \o <<".">> \o Last(loc).key
    ELSE PathOf(Front(loc)) \o <<"[">> \o Itoa(Last(loc).idx) \o <<"]">>

\* how often s occurs in the sequence q
Count(q, s) == Cardinality({i \in 1..Len(q) : q[i] = s})

\* the calls that take a path and read
PathReads ==
    {"GetValueByPath", "HasPath", "GetStringByPath", "GetIntByPath",
     "GetFloat64ByPath", "GetBoolByPath"}

\* the last call's path as GetValueByPath tokenizes it
parts == parsePath(path)

\* the result of GetValueByPath on the tree the last call was given
before == GetValueByPath(told, path)

\* the result of GetValueByPath on the tree the last call left
after == GetValueByPath(tree, path)

\* the node GetValueByPath(told, path) stands on before its last step
reached == navigate(told, Front(parts), 1, <<>>)

LastStepScans ==
    /\ Len(parts) >= 1
    /\ reached.err = NoErr
    /\ IsArr(reached.val)
    /\ ~parsePart(Last(parts)).isArray

\* no '.' of the path stands inside brackets: no segment holds a '.'
NoDotInBrackets == \A i \in 1..Len(parts) : "." \notin Range(parts[i])

KeyPatternOnly ==
    /\ op = "FindPaths"
    /\ ~opts.nil
    /\ opts.KeyPattern # <<>>
    /\ opts.ValuePattern = <<>>
    /\ opts.ExactValue = <<>>
    /\ opts.ValueType = ""

\* the nodes of t that are the entry of a map under a key the pattern matches
KeyMatches(t, pattern) ==
    {l \in NodeLocs(t) :
        Len(l) >= 1 /\ IsKeyStep(Last(l)) /\ MatchString(pattern, Last(l).key)}

pUserName == kUser \o <<".">> \o kName
pUserItems0 == kUser \o <<".">> \o kItems \o <<"[", "0", "]">>
pUserItems0Name == pUserItems0 \o <<".">> \o kName

\* C2 (as claimed): FindPaths with only KeyPattern set reports exactly the
\* paths of the nodes whose key matches the pattern; with KeyPattern="name"
\* on {"user":{"name":"J","items":[{"name":"x"}]}} the result is exactly
\* {"user.name","user.items[0].name"}.
C2_KeyPatternExact ==
    KeyPatternOnly =>
        /\ Range(rpaths) = {PathOf(l) : l \in KeyMatches(told, opts.KeyPattern)}
        /\ (told = UserTree /\ opts.KeyPattern = kName)
              => Range(rpaths) = {pUserName, pUserItems0Name}

\* ------------------------------------------------------------------------
\* C3
\* ------------------------------------------------------------------------
\* the last call was FindPaths with no filter set
NoFilter ==
    /\ op = "FindPaths"
    /\ \/ opts.nil
       \/ /\ opts.KeyPattern = <<>>
          /\ opts.ValuePattern = <<>>
          /\ opts.ExactValue = <<>>
          /\ opts.ValueType = ""

\* C3 (as claimed): FindPaths with no filter set returns an empty sequence
\* for every tree.
C3_NoFilterEmpty == NoFilter => rpaths = <<>>

\* C3 (amended): FindPaths with no filter set (all four fields empty, or
\* options = nil) returns the paths of all nodes below the root: a sequence
\* that GetAllPaths can return for the same tree.
C3_NoFilterAllPaths == NoFilter => rpaths \in GetAllPaths(told)

\* FindPaths(nil) on a tree with nodes below the root
C3_Witness == NoFilter /\ opts.nil /\ told = ABTree /\ Len(rpaths) = 4

\* ------------------------------------------------------------------------
\* C4
\* ------------------------------------------------------------------------
\* C4: HasPath(t,p) is true exactly when GetValueByPath(t,p) returns no
\* fault (empty path, paths of dots only and paths to a null included).
C4_HasPathIffGet == (op = "HasPath") => (rval.b <=> (before.err = NoErr))

\* HasPath is true of a non-empty path that resolves to null
C4_Witness ==
    /\ op = "HasPath"
    /\ Len(parts) >= 1
    /\ before.err = NoErr
    /\ IsNull(before.val)
    /\ rval.b

\* ------------------------------------------------------------------------
\* C5
\* ------------------------------------------------------------------------
\* C5 (as claimed): if SetValueByPath(t,p,v) returns no fault, a subsequent
\* GetValueByPath(t,p) succeeds and returns v.
C5_SetThenGet ==
    (op = "SetValueByPath" /\ rerr = NoErr) => (after.err = NoErr /\ after.val = arg)

\* ------------------------------------------------------------------------
\* C6
\* ------------------------------------------------------------------------
\* q is a prefix of l
IsPrefix(q, l) == Len(q) <= Len(l) /\ SubSeq(l, 1, Len(q)) = q

\* the texts a segment of the last call's path can name as a key
SegKeys == {parsePart(parts[i]).key : i \in 1..Len(parts)}

\* the slots of t a write can reach without creating a container or growing
\* an array: the elements of its arrays and the entries, present or new, of
\* its maps
Slots(t) ==
    {l \in NodeLocs(t) : Len(l) >= 1} \cup
    {Append(l, KeyStep(key)) : l \in {o \in NodeLocs(t) : IsObj(NodeAt(t, o))},
                               key \in SegKeys}

\* t with v stored in slot w
WriteAt(t, w, v) ==
    LET node == NodeAt(t, Front(w)) IN
    ReplaceAt(t, Front(w),
              IF IsKeyStep(Last(w)) THEN Obj(MapPut(node.m, Last(w).key, v))
              ELSE Arr([node.e EXCEPT ![Last(w).idx + 1] = v]))

\* C6: SetValueByPath never grows an array and never creates an intermediate
\* container: the tree is unchanged, or differs in the value of one key of an
\* existing map or one in-bounds element of an existing array, and every
\* array outside that slot keeps its length.
C6_SetWritesOneSlot ==
    (op = "SetValueByPath") =>
        \/ tree = told
        \/ \E w \in Slots(told) :
              /\ tree = WriteAt(told, w, arg)
              /\ \A a \in NodeLocs(told) :
                    (IsArr(NodeAt(told, a)) /\ ~IsPrefix(w, a))
                        => /\ a \in NodeLocs(tree)
                           /\ IsArr(NodeAt(tree, a))
                           /\ Len(NodeAt(tree, a).e) = Len(NodeAt(told, a).e)

\* a write that replaced an element of an array below the root
C6_Witness ==
    /\ op = "SetValueByPath"
    /\ rerr = NoErr
    /\ tree # told
    /\ Len(parts) >= 2
    /\ IsArr(reached.val)
    /\ parsePart(Last(parts)).isArray

\* ------------------------------------------------------------------------
\* C7
\* ------------------------------------------------------------------------
pA == kA
pB == kB
pB0 == kB \o <<"[", "0", "]">>
pB1 == kB \o <<"[", "1", "]">>

\* C7 (as claimed): GetAllPaths returns exactly one path for every node below
\* the root (map entries joined with '.', array elements suffixed with [i])
\* and no other string; on {"a":1,"b":[2,3]} the result is, as a set,
\* {"a","b","b[0]","b[1]"}.
C7_OnePathPerNode ==
    (op = "GetAllPaths") =>
        LET below == {l \in NodeLocs(told) : Len(l) >= 1} IN
        /\ Len(rpaths) = Cardinality(below)
        /\ \A l \in below :
              Count(rpaths, PathOf(l)) = Cardinality({o \in below : PathOf(o) = PathOf(l)})
        /\ told = ABTree => Range(rpaths) = {pA, pB, pB0, pB1}

setParent ==
    IF Len(parts) = 1 THEN [val |-> told, err |-> NoErr, loc |-> <<>>]
    ELSE GetValueByPath(told, Join(Front(parts), <<".">>))

\* a segment that is a key and no bracket group
BareKey(seg) == ~HasPrefix(seg, "[")

\* C9: SetValueByPath whose final segment is a bare key and whose parent
\* resolves to an array fails with the cannot-set-key-on-array fault,
\* whatever the elements of the array are (and leaves the tree as it was).
C9_KeyOnArrayFails ==
    (/\ op = "SetValueByPath"
     /\ Len(parts) >= 1
     /\ BareKey(Last(parts))
     /\ setParent.err = NoErr
     /\ IsArr(setParent.val))
        => (rerr = "CannotSetKeyOnArray" /\ tree = told)

\* the fault on an array one of whose elements is a map holding the key, the
\* case in which GetValueByPath finds a value
C9_Witness ==
    /\ op = "SetValueByPath"
    /\ Len(parts) >= 2
    /\ BareKey(Last(parts))
    /\ IsArr(setParent.val)
    /\ before.err = NoErr
    /\ rerr = "CannotSetKeyOnArray"

\* ------------------------------------------------------------------------
\* C10
\* ------------------------------------------------------------------------
pItems5 == kItems \o <<"[", "5", "]">>

\* C10: GetValueByPath applying an index segment [n] to an array returns
\* element n when 0 <= n < length and otherwise fails with the out-of-range
\* fault; "items[5]" against the two elements of {"items":[1,2]} fails with
\* the out-of-range fault.
C10_IndexStep ==
    (op = "GetValueByPath") =>
        /\ (/\ Len(parts) >= 1
            /\ reached.err = NoErr
            /\ IsArr(reached.val)
            /\ parsePart(Last(parts)).isArray)
              => LET n == parsePart(Last(parts)).index IN
                 IF 0 <= n /\ n < Len(reached.val.e)
                 THEN rerr = NoErr /\ rval = reached.val.e[n + 1]
                 ELSE rerr = "IndexOutOfRange"
        /\ (told = ItemsTree /\ path = pItems5) => rerr = "IndexOutOfRange"

\* "items[5]" against {"items":[1,2]}
C10_Witness ==
    /\ op = "GetValueByPath"
    /\ told = ItemsTree
    /\ path = pItems5
    /\ rerr = "IndexOutOfRange"

\* ------------------------------------------------------------------------
\* C11: GetValueByPath with the empty path returns the tree itself and no
\* fault, whatever the tree is (null and scalars included).
\* ------------------------------------------------------------------------
C11_EmptyPathIdentity ==
    (op = "GetValueByPath" /\ path = <<>>) => (rerr = NoErr /\ rval = told)

\* the empty path was read on the null tree
C11_Witness ==
    /\ op = "GetValueByPath"
    /\ path = <<>>
    /\ IsNull(told)
    /\ rerr = NoErr

\* ------------------------------------------------------------------------
\* C12: SetValueByPath with the empty path, or with a path of zero segments,
\* fails with an invalid-path fault and leaves the tree as it was.
\* ------------------------------------------------------------------------
InvalidPathFaults == {"PathEmpty", "InvalidPath"}

C12_NoSegmentsFails ==
    (op = "SetValueByPath" /\ Len(parts) = 0)
        => (rerr \in InvalidPathFaults /\ tree = told)

\* a path of dots and a stray ']' was set on a map
C12_Witness ==
    /\ op = "SetValueByPath"
    /\ path = <<".", "]">>
    /\ IsObj(told)
    /\ rerr = "InvalidPath"

\* ------------------------------------------------------------------------
\* C13: the reading operations leave the tree as it was; only SetValueByPath
\* changes it.
\* ------------------------------------------------------------------------
ReadOps ==
    {"GetValueByPath", "HasPath", "GetStringByPath", "GetIntByPath",
     "GetFloat64ByPath", "GetBoolByPath", "GetAllPaths", "FindPaths"}

C13_ReadsKeepTree ==
    /\ op \in ReadOps => tree = told
    /\ tree # told => op = "SetValueByPath"

\* a read resolved a node inside a container
C13_Witness ==
    /\ op = "GetValueByPath"
    /\ rerr = NoErr
    /\ Len(parts) > 0
    /\ rval # told
    /\ tree = told

\* ------------------------------------------------------------------------
\* C14: a typed accessor returns a fault exactly when GetValueByPath does for
\* the same tree and path, and then returns the zero value of its type; when
\* Get succeeds the accessor returns no fault, whatever kind of value was
\* resolved.
\* ------------------------------------------------------------------------
ZeroValue(name) ==
    CASE name = "GetStringByPath" -> Str(<<>>)
      [] name = "GetIntByPath" -> Num(0)
      [] name = "GetFloat64ByPath" -> Num(0)
      [] name = "GetBoolByPath" -> Bool(FALSE)

TypedOps == {"GetStringByPath", "GetIntByPath", "GetFloat64ByPath", "GetBoolByPath"}

C14_TypedFaultIffGet ==
    op \in TypedOps =>
        /\ rerr = before.err
        /\ before.err \notin {NoErr, "panic"} => rval = ZeroValue(op)

\* GetIntByPath resolved a string that is no number and returned no fault
C14_Witness ==
    /\ op = "GetIntByPath"
    /\ before.err = NoErr
    /\ before.val = Str(<<"x">>)
    /\ rerr = NoErr

\* ------------------------------------------------------------------------
\* concurrency.Semaphore: a channel of capacity maxCount and a WaitGroup.
\* Goroutines take permits either by calling Acquire(delta) themselves and
\* Release once per permit later, or as the goroutine AcquireWithFunc starts;
\* one goroutine (main) submits callbacks with AcquireWithFunc and then
\* calls Wait.  Every statement that touches s.c or s.wg is a step.
\* ------------------------------------------------------------------------
NumGoroutines == 3
MaxCount == 2
MaxDelta == 2

Goroutines == 1..NumGoroutines

\* a goroutine that has not been started
NotStarted == [pc |-> "new", viaFunc |-> FALSE, delta |-> 0, held |-> 0]

\* NewSemaphore(maxCount)
NewSemaphore(n) == [c |-> 0, wg |-> 0]

SemInit ==
    /\ PathOff /\ StreamOff /\ StringOff /\ SliceOff
    /\ maxCount \in 1..MaxCount
    /\ sem = NewSemaphore(maxCount)
    /\ routine = [g \in Goroutines |-> NotStarted]
    /\ mainpc = "submit"
    /\ pending = {}

SemFrame == UNCHANGED <<maxCount, pathVars, streamVars, callVars>>

\* the goroutines are numbered in the order they start
IsNextToStart(g) ==
    /\ routine[g].pc = "new"
    /\ \A o \in Goroutines : o < g => routine[o].pc # "new"

\* a panic of any goroutine ends the program: no goroutine takes a step
\* after it
Running == mainpc # "panic"

\* main: s.AcquireWithFunc(f, args...) starts a goroutine and returns
AcquireWithFunc(g) ==
    /\ mainpc = "submit"
    /\ IsNextToStart(g)
    /\ routine' = [routine EXCEPT ![g] = [pc |-> "go", viaFunc |-> TRUE,
                                          delta |-> 1, held |-> 0]]
    /\ UNCHANGED <<sem, mainpc, pending>>
    /\ SemFrame

\* the first statement of Acquire(delta): s.wg.Add(delta)
AcquireAdd(g, d) ==
    /\ Running
    /\ sem' = [sem EXCEPT !.wg = @ + d]
    /\ routine' = [routine EXCEPT ![g].pc = "send", ![g].delta = d]
    /\ UNCHANGED <<mainpc, pending>>
    /\ SemFrame

\* a goroutine calls s.Acquire(delta) itself
CallAcquire(g) ==
    /\ IsNextToStart(g)
    /\ \E d \in 1..MaxDelta : AcquireAdd(g, d)

\* the goroutine of AcquireWithFunc gets to run: defer s.Release(); s.Acquire(1)
FuncAcquire(g) ==
    /\ routine[g].pc = "go"
    /\ AcquireAdd(g, 1)

\* one round of Acquire's loop with the send not waiting for a free slot
AcquireSend_NoBlock(g) ==
    /\ Running
    /\ routine[g].pc = "send"
    /\ sem' = [sem EXCEPT !.c = @ + 1]
    /\ routine' = [routine EXCEPT
           ![g].held = @ + 1,
           ![g].delta = IF routine[g].held + 1 < @ THEN @ ELSE 0,
           ![g].pc = IF routine[g].held + 1 < routine[g].delta THEN "send"
                     ELSE IF routine[g].viaFunc THEN "run" ELSE "hold"]
    /\ UNCHANGED <<mainpc, pending>>
    /\ SemFrame

\* one round of Acquire's loop: s.c <- struct{}{} waits while the channel
\* is full; after the last round Acquire returns and its argument is gone
AcquireSend(g) ==
    /\ Running
    /\ routine[g].pc = "send"
    /\ sem.c < maxCount
    /\ sem' = [sem EXCEPT !.c = @ + 1]
    /\ routine' = [routine EXCEPT
           ![g].held = @ + 1,
           ![g].delta = IF routine[g].held + 1 < @ THEN @ ELSE 0,
           ![g].pc = IF routine[g].held + 1 < routine[g].delta THEN "send"
                     ELSE IF routine[g].viaFunc THEN "run" ELSE "hold"]
    /\ UNCHANGED <<mainpc, pending>>
    /\ SemFrame

\* the callback f(args...) returns; the deferred Release is next
FuncReturn(g) ==
    /\ Running
    /\ routine[g].pc = "run"
    /\ routine' = [routine EXCEPT ![g].pc = "hold"]
    /\ UNCHANGED <<sem, mainpc, pending>>
    /\ SemFrame

\* the first statement of Release: <-s.c waits while the channel is empty
ReleaseRecv(g) ==
    /\ Running
    /\ routine[g].pc = "hold"
    /\ sem.c > 0
    /\ sem' = [sem EXCEPT !.c = @ - 1]
    /\ routine' = [routine EXCEPT ![g].pc = "done", ![g].held = @ - 1]
    /\ UNCHANGED <<mainpc, pending>>
    /\ SemFrame

\* the second statement of Release: s.wg.Done(); the Done that brings the
\* counter to zero wakes the goroutine asleep in Wait
ReleaseDone(g) ==
    /\ Running
    /\ routine[g].pc = "done"
    /\ sem' = [sem EXCEPT !.wg = @ - 1]
    /\ routine' = [routine EXCEPT
           ![g].pc = IF routine[g].held = 0 THEN "end" ELSE "hold"]
    /\ mainpc' = IF mainpc = "asleep" /\ sem.wg = 1 THEN "woken" ELSE mainpc
    /\ UNCHANGED pending
    /\ SemFrame

\* the Acquire call of g has made its first statement and g has not yet
\* given back all it asked for
Outstanding(g) == routine[g].pc \in {"send", "run", "hold", "done"}

\* main calls s.Wait()
CallWait ==
    /\ mainpc = "submit"
    /\ mainpc' = "wait"
    /\ pending' = {g \in Goroutines : Outstanding(g)}
    /\ UNCHANGED <<sem, routine>>
    /\ SemFrame

\* Wait changed to return when the channel is empty
WaitReturn_ChannelEmpty ==
    /\ mainpc \in {"wait", "woken"}
    /\ sem.c = 0
    /\ mainpc' = "returned"
    /\ UNCHANGED <<sem, routine, pending>>
    /\ SemFrame

\* s.wg.Wait() finds the counter at zero and returns, at once or when it
\* has been woken
WaitReturn ==
    /\ mainpc \in {"wait", "woken"}
    /\ sem.wg = 0
    /\ mainpc' = "returned"
    /\ UNCHANGED <<sem, routine, pending>>
    /\ SemFrame

\* s.wg.Wait() finds the counter above zero and goes to sleep until a Done
\* brings it to zero
WaitSleep ==
    /\ mainpc = "wait"
    /\ sem.wg > 0
    /\ mainpc' = "asleep"
    /\ UNCHANGED <<sem, routine, pending>>
    /\ SemFrame

\* s.wg.Wait() has been woken and finds the counter above zero again: an
\* Add has run since the Done that woke it, and sync.WaitGroup panics
\* ("WaitGroup is reused before previous Wait has returned")
WaitPanic ==
    /\ mainpc = "woken"
    /\ sem.wg > 0
    /\ mainpc' = "panic"
    /\ UNCHANGED <<sem, routine, pending>>
    /\ SemFrame

SemNext ==
    \/ \E g \in Goroutines : AcquireWithFunc(g)
    \/ \E g \in Goroutines : CallAcquire(g)
    \/ \E g \in Goroutines : FuncAcquire(g)
    \/ \E g \in Goroutines : AcquireSend(g)
    \/ \E g \in Goroutines : FuncReturn(g)
    \/ \E g \in Goroutines : ReleaseRecv(g)
    \/ \E g \in Goroutines : ReleaseDone(g)
    \/ CallWait
    \/ WaitReturn
    \/ WaitSleep
    \/ WaitPanic

SemSpec == SemInit /\ [][SemNext]_vars

\* ------------------------------------------------------------------------
\* Vocabulary of the semaphore properties
\* ------------------------------------------------------------------------
RECURSIVE HeldUpTo(_)
\* the permits held by the goroutines 1..n
HeldUpTo(n) == IF n = 0 THEN 0 ELSE routine[n].held + HeldUpTo(n - 1)

PermitsHeld == HeldUpTo(NumGoroutines)

\* the goroutines whose callback is executing
Executing == {g \in Goroutines : routine[g].viaFunc /\ routine[g].pc = "run"}

\* the goroutines started by AcquireWithFunc
Submitted == {g \in Goroutines : routine[g].viaFunc}

\* the callback of g has finished executing
Finished(g) == routine[g].viaFunc /\ routine[g].pc \in {"hold", "done", "end"}

\* ------------------------------------------------------------------------
\* C15: the permits held never exceed maxCount, so at most maxCount
\* callbacks of AcquireWithFunc execute at the same time; a permit is taken
\* only in a step that finds a free slot, an Acquire that finds none stays
\* where it is.
\* ------------------------------------------------------------------------
C15_Bound ==
    /\ PermitsHeld = sem.c
    /\ sem.c <= maxCount
    /\ Cardinality(Executing) <= maxCount

C15_TakesFreeSlot ==
    \A g \in Goroutines :
        routine'[g].held > routine[g].held => sem.c < maxCount /\ sem'.c = sem.c + 1

C15_SemaphoreBound == []C15_Bound /\ [][C15_TakesFreeSlot]_vars

\* every slot is taken by an executing callback and one more Acquire has
\* made its first statement: it is blocked
C15_Witness ==
    /\ maxCount = 2
    /\ Cardinality(Executing) = 2
    /\ \E g \in Goroutines : routine[g].pc = "send"

\* ------------------------------------------------------------------------
\* C16: a Wait that follows the AcquireWithFunc calls returns only after
\* every submitted callback has finished executing.
\* ------------------------------------------------------------------------
C16_WaitForAllTasks ==
    mainpc = "returned" => \A g \in Submitted : Finished(g)

\* ------------------------------------------------------------------------
\* C17: Wait returns only when every permit asked for by an Acquire call
\* that had made its first statement when Wait was called has been given
\* back by a Release, the permits of Acquire calls still blocked included.
\* ------------------------------------------------------------------------
C17_WaitForPermits ==
    mainpc = "returned" => \A g \in pending : routine[g].pc = "end"

\* Wait was called while the permits of two Acquire calls were outstanding,
\* and has returned
C17_Witness ==
    /\ mainpc = "returned"
    /\ Cardinality(pending) >= 2

\* ------------------------------------------------------------------------
\* file.ReadLinesChannel(filePath, bufferSize): a goroutine scans the file
\* and sends every line on a channel of capacity bufferSize; an error goes
\* to a channel of capacity 1.  Its deferred calls run last registered
\* first: file.Close(), close(errChan), close(lines).  The caller runs the
\* documented loop: for line := range lines {...}; err := <-errChan.
\* Opening and scanning may fail at any point.
\* ------------------------------------------------------------------------
MaxLines == 2
MaxBuffer == 2

LineTexts == {<<"a">>, <<"b">>}

Files == UNION {[1..n -> LineTexts] : n \in 0..MaxLines}

\* make(chan T, n)
MakeChan == [buf |-> <<>>, closed |-> FALSE]

StreamInit ==
    /\ PathOff /\ SemOff /\ StringOff /\ SliceOff /\ ChunkOff
    /\ bufferSize \in 0..MaxBuffer
    /\ file \in Files
    /\ lines = MakeChan
    /\ errChan = MakeChan
    /\ producer = [pc |-> "open", n |-> 0, text |-> <<>>, err |-> NoErr]
    /\ consumer = [pc |-> "range", got |-> <<>>, err |-> NoErr]

StreamFrame == UNCHANGED <<bufferSize, file, chunkVars, pathVars, semVars, callVars>>

\* os.Open(filePath) succeeds
OpenOk ==
    /\ producer.pc = "open"
    /\ producer' = [producer EXCEPT !.pc = "scan"]
    /\ UNCHANGED <<lines, errChan, consumer>>
    /\ StreamFrame

\* os.Open(filePath) fails
OpenFails ==
    /\ producer.pc = "open"
    /\ producer' = [producer EXCEPT !.pc = "sendErr", !.err = "open"]
    /\ UNCHANGED <<lines, errChan, consumer>>
    /\ StreamFrame

\* scanner.Scan() finds the next line
ScanLine ==
    /\ producer.pc = "scan"
    /\ producer.n < Len(file)
    /\ producer' = [producer EXCEPT !.pc = "send", !.n = @ + 1,
                                    !.text = file[producer.n + 1]]
    /\ UNCHANGED <<lines, errChan, consumer>>
    /\ StreamFrame

\* scanner.Scan() reaches the end of the file; scanner.Err() is nil
ScanEOF ==
    /\ producer.pc = "scan"
    /\ producer.n = Len(file)
    /\ producer' = [producer EXCEPT !.pc = "closeErrChan"]
    /\ UNCHANGED <<lines, errChan, consumer>>
    /\ StreamFrame

\* scanner.Scan() fails; scanner.Err() is not nil
ScanFails ==
    /\ producer.pc = "scan"
    /\ producer' = [producer EXCEPT !.pc = "sendErr", !.err = "read"]
    /\ UNCHANGED <<lines, errChan, consumer>>
    /\ StreamFrame

\* lines <- scanner.Text() into a free slot of the buffer
SendLine ==
    /\ producer.pc = "send"
    /\ Len(lines.buf) < bufferSize
    /\ lines' = [lines EXCEPT !.buf = Append(@, producer.text)]
    /\ producer' = [producer EXCEPT !.pc = "scan"]
    /\ UNCHANGED <<errChan, consumer>>
    /\ StreamFrame

\* lines <- scanner.Text() on an unbuffered channel: the send and the
\* receive of the range loop happen together
HandLine ==
    /\ producer.pc = "send"
    /\ bufferSize = 0
    /\ consumer.pc = "range"
    /\ consumer' = [consumer EXCEPT !.got = Append(@, producer.text)]
    /\ producer' = [producer EXCEPT !.pc = "scan"]
    /\ UNCHANGED <<lines, errChan>>
    /\ StreamFrame

\* errChan <- err, then the function returns and file.Close() runs if the
\* file was opened
SendErr ==
    /\ producer.pc = "sendErr"
    /\ Len(errChan.buf) < 1
    /\ errChan' = [errChan EXCEPT !.buf = Append(@, producer.err)]
    /\ producer' = [producer EXCEPT !.pc = "closeErrChan"]
    /\ UNCHANGED <<lines, consumer>>
    /\ StreamFrame

\* the goroutine without its defer close(errChan)
CloseErrChan_Missing ==
    /\ producer.pc = "closeErrChan"
    /\ producer' = [producer EXCEPT !.pc = "closeLines"]
    /\ UNCHANGED <<lines, errChan, consumer>>
    /\ StreamFrame

\* deferred: close(errChan)
CloseErrChan ==
    /\ producer.pc = "closeErrChan"
    /\ errChan' = [errChan EXCEPT !.closed = TRUE]
    /\ producer' = [producer EXCEPT !.pc = "closeLines"]
    /\ UNCHANGED <<lines, consumer>>
    /\ StreamFrame

\* deferred: close(lines); the goroutine ends
CloseLines ==
    /\ producer.pc = "closeLines"
    /\ lines' = [lines EXCEPT !.closed = TRUE]
    /\ producer' = [producer EXCEPT !.pc = "exit"]
    /\ UNCHANGED <<errChan, consumer>>
    /\ StreamFrame

\* for line := range lines: a line is received from the buffer
RecvLine ==
    /\ consumer.pc = "range"
    /\ Len(lines.buf) > 0
    /\ consumer' = [consumer EXCEPT !.got = Append(@, Head(lines.buf))]
    /\ lines' = [lines EXCEPT !.buf = Tail(@)]
    /\ UNCHANGED <<errChan, producer>>
    /\ StreamFrame

\* for line := range lines: the channel is closed and empty, the loop ends
RangeEnds ==
    /\ consumer.pc = "range"
    /\ Len(lines.buf) = 0
    /\ lines.closed
    /\ consumer' = [consumer EXCEPT !.pc = "recvErr"]
    /\ UNCHANGED <<lines, errChan, producer>>
    /\ StreamFrame

\* err := <-errChan: the error sent, or nil from the closed channel
RecvErr ==
    /\ consumer.pc = "recvErr"
    /\ Len(errChan.buf) > 0 \/ errChan.closed
    /\ consumer' = [consumer EXCEPT
           !.pc = "done",
           !.err = IF Len(errChan.buf) > 0 THEN Head(errChan.buf) ELSE NoErr]
    /\ errChan' = [errChan EXCEPT !.buf = IF Len(@) > 0 THEN Tail(@) ELSE @]
    /\ UNCHANGED <<lines, producer>>
    /\ StreamFrame

StreamNext ==
    \/ OpenOk
    \/ OpenFails
    \/ ScanLine
    \/ ScanEOF
    \/ ScanFails
    \/ SendLine
    \/ HandLine
    \/ SendErr
    \/ CloseErrChan
    \/ CloseLines
    \/ RecvLine
    \/ RangeEnds
    \/ RecvErr

StreamSpec == StreamInit /\ [][StreamNext]_vars

\* the scheduler runs a goroutine that can make a step, and the caller
\* keeps receiving
FairStreamSpec == StreamSpec /\ WF_vars(StreamNext)

\* ------------------------------------------------------------------------
\* C18: the lines channel delivers the lines of the file once each and in
\* file order, all of them unless opening or scanning fails, and is then
\* closed; once it is closed, the receive on the error channel does not
\* block and yields the error if there was one; the loop 'range lines'
\* followed by '<-errChan' terminates.
\* ------------------------------------------------------------------------
C18_Delivery ==
    /\ IsPrefix(consumer.got, file)
    /\ lines.closed => errChan.closed
    /\ consumer.pc = "recvErr" => ENABLED RecvErr
    /\ consumer.pc = "done" =>
          /\ consumer.err = producer.err
          /\ consumer.got = SubSeq(file, 1, producer.n)
          /\ producer.err = NoErr => consumer.got = file

C18_LinesThenError == []C18_Delivery /\ <>(consumer.pc = "done")

\* scanning failed after the first of two lines; the caller has received
\* that line through an unbuffered channel and then the error
C18_Witness ==
    /\ consumer.pc = "done"
    /\ bufferSize = 0
    /\ Len(file) = 2
    /\ Len(consumer.got) = 1
    /\ consumer.err = "read"

\* ------------------------------------------------------------------------
\* stringutil.SnakeToCamel
\* ------------------------------------------------------------------------
MaxStrLen == 4

LowerCase ==
    <<"a", "b", "c", "d", "e", "f", "g", "h", "i", "j", "k", "l", "m",
      "n", "o", "p", "q", "r", "s", "t", "u", "v", "w", "x", "y", "z">>
UpperCase ==
    <<"A", "B", "C", "D", "E", "F", "G", "H", "I", "J", "K", "L", "M",
      "N", "O", "P", "Q", "R", "S", "T", "U", "V", "W", "X", "Y", "Z">>

\* strings.ToUpper, on the letters of ASCII
ToUpper(s) ==
    [j \in 1..Len(s) |->
        IF \E n \in 1..26 : LowerCase[n] = s[j]
        THEN UpperCase[CHOOSE n \in 1..26 : LowerCase[n] = s[j]]
        ELSE s[j]]

RECURSIVE Split(_, _)
\* strings.Split(s, sep) for a separator of one character
Split(s, sep) ==
    IF Index(s, sep) < 0 THEN <<s>>
    ELSE <<Slice(s, 0, Index(s, sep))>> \o Split(Slice(s, Index(s, sep) + 1, Len(s)), sep)

\* SnakeToCamel(s): the loop starts at the second part
SnakeToCamel(s) ==
    LET split == Split(s, "_")
        looped == [j \in 1..Len(split) |->
                     IF j >= 2 /\ Len(split[j]) > 0
                     THEN ToUpper(Slice(split[j], 0, 1)) \o Slice(split[j], 1, Len(split[j]))
                     ELSE split[j]]
    IN  Join(looped, <<>>)

hello_world == <<"h", "e", "l", "l", "o", "_", "w", "o", "r", "l", "d">>
HelloWorld == <<"H", "e", "l", "l", "o", "W", "o", "r", "l", "d">>

SnakeAlphabet == {"a", "b", "_"}

\* the arguments of the calls: every short string, and the documented one
Snakes == UNION {[1..n -> SnakeAlphabet] : n \in 0..MaxStrLen} \cup {hello_world}

StringInit ==
    /\ PathOff /\ SemOff /\ StreamOff /\ SliceOff
    /\ \E s \in Snakes : strCall = [pc |-> "call", s |-> s, out |-> <<>>]

CallSnakeToCamel ==
    /\ strCall.pc = "call"
    /\ strCall' = [strCall EXCEPT !.pc = "done", !.out = SnakeToCamel(strCall.s)]
    /\ UNCHANGED <<sliceCall, pathVars, semVars, streamVars>>

StringNext == CallSnakeToCamel

StringSpec == StringInit /\ [][StringNext]_vars

\* the part with its first character in upper case
Capitalized(w) == IF Len(w) = 0 THEN w ELSE ToUpper(Slice(w, 0, 1)) \o Slice(w, 1, Len(w))

\* ------------------------------------------------------------------------
\* C19: SnakeToCamel("hello_world") returns "HelloWorld"; the underscores
\* are removed and every word between them, the first included, starts
\* with an upper-case letter.
\* ------------------------------------------------------------------------
C19_EveryWordCapital ==
    strCall.pc = "done" =>
        /\ strCall.s = hello_world => strCall.out = HelloWorld
        /\ LET split == Split(strCall.s, "_") IN
           strCall.out = Join([j \in 1..Len(split) |-> Capitalized(split[j])], <<>>)

\* ------------------------------------------------------------------------
\* slice.Chunk and slice.Flatten.  An int has IntBits bits here; sums wrap
\* around as Go's do, and the slices are short enough for i + size in the
\* loop never to wrap, as with the slices a 64-bit machine can hold.
\* ------------------------------------------------------------------------
IntBits == 5
MaxSliceLen == 3

MaxInt == 2 ^ (IntBits - 1) - 1

\* the int a sum or difference is stored as
Wrap(n) == ((n + 2 ^ (IntBits - 1)) % 2 ^ IntBits) - 2 ^ (IntBits - 1)

\* Go's a / b for b > 0: the quotient is truncated toward zero
Quo(a, b) == IF a >= 0 THEN a \div b ELSE 0 - ((0 - a) \div b)

RECURSIVE ChunkLoop(_, _, _, _)
\* the loop of Chunk from index i on; slice[i:end] panics if end < i
ChunkLoop(slice, size, i, chunks) ==
    IF i < Len(slice)
    THEN LET sum == Wrap(i + size)
             end == IF sum > Len(slice) THEN Len(slice) ELSE sum
         IN  IF end < i THEN [chunks |-> chunks, panic |-> TRUE]
             ELSE ChunkLoop(slice, size, sum, Append(chunks, Slice(slice, i, end)))
    ELSE [chunks |-> chunks, panic |-> FALSE]

\* Chunk(slice, size); make panics on a negative capacity
Chunk(slice, size) ==
    IF size <= 0 THEN [chunks |-> <<slice>>, panic |-> FALSE]
    ELSE IF Quo(Wrap(Wrap(Len(slice) + size) - 1), size) < 0
    THEN [chunks |-> <<>>, panic |-> TRUE]
    ELSE ChunkLoop(slice, size, 0, <<>>)

RECURSIVE Flatten(_)
\* Flatten(slices)
Flatten(slices) ==
    IF Len(slices) = 0 THEN <<>> ELSE Head(slices) \o Flatten(Tail(slices))

\* the arguments of the calls: every short slice and the documented one,
\* every size an int can hold from -1 on
Slices == UNION {[1..n -> {1, 2}] : n \in 0..MaxSliceLen} \cup {<<1, 2, 3, 4, 5>>}
Sizes == (0 - 1)..MaxInt

SliceInit ==
    /\ PathOff /\ SemOff /\ StreamOff /\ StringOff
    /\ \E sl \in Slices, sz \in Sizes :
          sliceCall = [pc |-> "call", slice |-> sl, size |-> sz,
                       chunks |-> <<>>, flat |-> <<>>]

\* chunks := slice.Chunk(slice, size)
CallChunk ==
    /\ sliceCall.pc = "call"
    /\ LET r == Chunk(sliceCall.slice, sliceCall.size) IN
       sliceCall' = [sliceCall EXCEPT !.pc = IF r.panic THEN "panic" ELSE "chunked",
                                      !.chunks = r.chunks]
    /\ UNCHANGED <<strCall, pathVars, semVars, streamVars>>

\* flat := slice.Flatten(chunks)
CallFlatten ==
    /\ sliceCall.pc = "chunked"
    /\ sliceCall' = [sliceCall EXCEPT !.pc = "done", !.flat = Flatten(sliceCall.chunks)]
    /\ UNCHANGED <<strCall, pathVars, semVars, streamVars>>

SliceNext ==
    \/ CallChunk
    \/ CallFlatten

SliceSpec == SliceInit /\ [][SliceNext]_vars

\* what the chunks of a call that returned are to be
ChunkSplits ==
    LET slice == sliceCall.slice
        size == sliceCall.size
        chunks == sliceCall.chunks
    IN  /\ size <= 0 => chunks = <<slice>>
        /\ size > 0 =>
             /\ Flatten(chunks) = slice
             /\ \A j \in 1..(Len(chunks) - 1) : Len(chunks[j]) = size
             /\ Len(chunks) > 0 =>
                    Len(chunks[Len(chunks)]) >= 1 /\ Len(chunks[Len(chunks)]) <= size
             /\ Len(slice) = 0 => chunks = <<>>
        /\ (slice = <<1, 2, 3, 4, 5>> /\ size = 2) => chunks = <<<<1, 2>>, <<3, 4>>, <<5>>>>
        /\ sliceCall.pc = "done" /\ size > 0 => sliceCall.flat = slice

\* ------------------------------------------------------------------------
\* C20: for size > 0 Chunk returns consecutive chunks whose concatenation is
\* the input, all of size elements but the last, which has 1 to size; an
\* empty input gives no chunks; size <= 0 gives one chunk, the input.
\* ------------------------------------------------------------------------
C20_ChunkSplits ==
    sliceCall.pc # "call" => (sliceCall.pc # "panic" /\ ChunkSplits)

\* ------------------------------------------------------------------------
\* C21: for a path of two or more segments, joining all segments but the
\* last with '.' and tokenizing the result gives those segments again, and
\* the container SetValueByPath writes into is the node reached by
\* navigating them from the root.
\* ------------------------------------------------------------------------
C21_ParentIsNavigated ==
    (op = "SetValueByPath" /\ Len(parts) >= 2) =>
        /\ parsePath(Join(Front(parts), <<".">>)) = Front(parts)
        /\ setParent.err = reached.err
        /\ setParent.err = NoErr =>
              (setParent.loc = reached.loc /\ setParent.val = reached.val)

\* ------------------------------------------------------------------------
\* C22: every segment parsePath produces is non-empty and is either text
\* without '[' and ']' or one bracket group "[contents]" whose contents hold
\* no bracket; a key followed at once by an index gives the two segments
\* key and "[index]"; so parsePart never takes its branch for a key and an
\* index in one segment, neither in Get nor in Set.
\* ------------------------------------------------------------------------
Brackets == {"[", "]"}

IsText(seg) == Range(seg) \cap Brackets = {}

IsBracketGroup(seg) ==
    /\ Len(seg) >= 2
    /\ seg[1] = "["
    /\ seg[Len(seg)] = "]"
    /\ IsText(Slice(seg, 1, Len(seg) - 1))

\* parsePart would take the branch for "key[index]"
TakesCombinedBranch(seg) ==
    /\ ~(HasPrefix(seg, "[") /\ HasSuffix(seg, "]"))
    /\ Index(seg, "[") # -1

SegmentShape(seg) ==
    /\ Len(seg) > 0
    /\ IsText(seg) \/ IsBracketGroup(seg)
    /\ ~TakesCombinedBranch(seg)

\* the path is a key followed at once by one bracket group
IsKeyThenIndex(p) ==
    /\ Len(p) >= 3
    /\ p[Len(p)] = "]"
    /\ Index(p, "[") >= 1
    /\ \A j \in 1..(Len(p) - 1) :
          j # Index(p, "[") + 1 => p[j] \notin {".", "[", "]"}

\* the segments the last call handed to parsePart
SegmentsParsed ==
    Range(parts) \cup
    (IF op = "SetValueByPath" /\ Len(parts) >= 2
     THEN Range(parsePath(Join(Front(parts), <<".">>)))
     ELSE {})

C22_SegmentShape ==
    op \in PathReads \cup {"SetValueByPath"} =>
        /\ \A seg \in SegmentsParsed : SegmentShape(seg)
        /\ IsKeyThenIndex(path) =>
              parts = <<Slice(path, 0, Index(path, "[")),
                        Slice(path, Index(path, "["), Len(path))>>

\* "a[0]" was read
C22_Witness ==
    /\ op = "GetValueByPath"
    /\ path = <<"a", "[", "0", "]">>
    /\ parts = <<<<"a">>, <<"[", "0", "]">>>>

\* ------------------------------------------------------------------------
\* C23: a key-only segment applied to an array takes the value of the key
\* in the first element, in index order, that is an object containing the
\* key; it fails with key-not-found-in-array-elements exactly when there is
\* no such element.
\* ------------------------------------------------------------------------
\* the elements of the array that are objects containing the key
Hits(e, key) == {j \in 1..Len(e) : IsObj(e[j]) /\ key \in DOMAIN e[j].m}

Min(S) == CHOOSE n \in S : \A o \in S : n <= o

\* the last segment of the path is key-only and is applied to an array
LastKeyOnArray ==
    /\ Len(parts) >= 1
    /\ reached.err = NoErr
    /\ IsArr(reached.val)
    /\ ~parsePart(Last(parts)).isArray
    /\ ~parsePart(Last(parts)).panic

C23_FirstMatchInArray ==
    (op = "GetValueByPath" /\ LastKeyOnArray) =>
        LET e == reached.val.e
            key == parsePart(Last(parts)).key
        IN  IF Hits(e, key) = {}
            THEN rerr = "KeyNotFoundInArray"
            ELSE /\ rerr = NoErr
                 /\ rval = e[Min(Hits(e, key))].m[key]
                 /\ before.loc = reached.loc \o <<IdxStep(Min(Hits(e, key)) - 1), KeyStep(key)>>

\* the key is in two elements with different values, after an element that
\* is no object and an object without the key
C23_Witness ==
    /\ op = "GetValueByPath"
    /\ LastKeyOnArray
    /\ Cardinality(Hits(reached.val.e, parsePart(Last(parts)).key)) >= 2
    /\ Min(Hits(reached.val.e, parsePart(Last(parts)).key)) >= 3
    /\ rval = Num(1)

\* ------------------------------------------------------------------------
\* C24
\* ------------------------------------------------------------------------
\* the calls that walk the whole tree and report paths
Walks == {"GetAllPaths", "FindPaths"}

\* path q is the path of a node beneath the node of path p: p, then a '.' or
\* a '[', then more
Beneath(q, p) ==
    /\ Len(p) < Len(q)
    /\ SubSeq(q, 1, Len(p)) = p
    /\ q[Len(p) + 1] \in {".", "["}

\* the locations of told below the root that a reported path stands for
LocsOf(p) == {l \in NodeLocs(told) : Len(l) >= 1 /\ PathOf(l) = p}

\* li and lj are elements of one array, li at the smaller index
EarlierElement(li, lj) ==
    /\ Front(li) = Front(lj)
    /\ ~IsKeyStep(Last(li))
    /\ ~IsKeyStep(Last(lj))
    /\ Last(li).idx < Last(lj).idx

\* the result never holds the empty path
C24_NoRoot == (op \in Walks) => <<>> \notin Range(rpaths)

\* every reported path is the path of a node of the tree: nothing is reported
\* beneath a scalar
C24_OnlyNodes == (op \in Walks) => \A i \in 1..Len(rpaths) : LocsOf(rpaths[i]) # {}

\* a container's path precedes the paths of the nodes beneath it
C24_ContainerFirst ==
    (op \in Walks) =>
        \A i, j \in 1..Len(rpaths) : Beneath(rpaths[j], rpaths[i]) => i < j

\* the elements of an array are reported in ascending index order
C24_ElementsAscend ==
    (op \in Walks) =>
        \A i, j \in 1..Len(rpaths) :
            (\E li \in LocsOf(rpaths[i]), lj \in LocsOf(rpaths[j]) : EarlierElement(li, lj))
                => i < j

\* C24 (as claimed): FindPaths and GetAllPaths never report the root (the
\* empty path), and their result is in pre-order: the path of every reported
\* container precedes the paths of all nodes beneath it, array elements
\* appear in ascending index order, and scalars are never descended into.
C24_PreOrder ==
    /\ C24_NoRoot
    /\ C24_OnlyNodes
    /\ C24_ContainerFirst
    /\ C24_ElementsAscend

\* ------------------------------------------------------------------------
\* C26
\* ------------------------------------------------------------------------
\* the characters parsePath gives a meaning to
PathSyntax == {".", "[", "]"}

\* every object key of t is non-empty and free of '.', '[' and ']'
PlainKeys(t) ==
    \A l \in NodeLocs(t) : \A i \in 1..Len(l) :
        IsKeyStep(l[i]) => (l[i].key # <<>> /\ Range(l[i].key) \cap PathSyntax = {})

\* the nodes of told below the root
BelowRoot == {l \in NodeLocs(told) : Len(l) >= 1}

\* where GetValueByPath(told, p) ends for the paths of the result
Resolved == {GetValueByPath(told, rpaths[i]).loc : i \in 1..Len(rpaths)}

\* C26: for every tree whose object keys are non-empty and contain none of
\* '.', '[' and ']', every path p returned by GetAllPaths(t) satisfies
\* HasPath(t,p), and GetValueByPath(t,p) returns exactly the node for which p
\* was generated: it ends at the one node of that path with that node's
\* value, and the paths of the result reach every node below the root, one
\* path each.
C26_PathsResolve ==
    (op = "GetAllPaths" /\ PlainKeys(told)) =>
        /\ \A i \in 1..Len(rpaths) :
              LET got == GetValueByPath(told, rpaths[i]) IN
              /\ HasPath(told, rpaths[i])
              /\ got.err = NoErr
              /\ got.loc \in BelowRoot
              /\ PathOf(got.loc) = rpaths[i]
              /\ got.val = NodeAt(told, got.loc)
        /\ Resolved = BelowRoot
        /\ Len(rpaths) = Cardinality(BelowRoot)

\* the paths of an object holding an array of objects, all resolved
C26_Witness ==
    /\ op = "GetAllPaths"
    /\ PlainKeys(told)
    /\ \E i \in 1..Len(rpaths) :
          /\ Len(GetValueByPath(told, rpaths[i]).loc) = 3
          /\ "[" \in Range(rpaths[i])
          /\ HasPath(told, rpaths[i])

\* ------------------------------------------------------------------------
\* C27
\* ------------------------------------------------------------------------
\* the errors SetValueByPath and setValueAtPath return
SetFaults ==
    {"PathEmpty", "InvalidPath", "FailedToGetParent", "ArrayIndexOnMap",
     "CannotSetKeyOnArray", "IndexOutOfRange", "CannotSetOnType"}

\* C27: whenever SetValueByPath returns a fault (empty or invalid path,
\* unresolvable parent, index on an object, key on an array, index out of
\* range, scalar or null target) the tree is identical to what it was before
\* the call.
C27_FaultKeepsTree ==
    (op = "SetValueByPath" /\ rerr # NoErr) => (rerr \in SetFaults /\ tree = told)

\* an index segment refused by an object that was reached through a parent
\* path
C27_Witness ==
    /\ op = "SetValueByPath"
    /\ rerr = "ArrayIndexOnMap"
    /\ Len(parts) >= 2
    /\ tree = told

\* ------------------------------------------------------------------------
\* file.ReadChunksChannel(filePath, chunkSize, bufferSize): a goroutine
\* reads the file into one buffer of chunkSize bytes, copies what each read
\* returned into a chunk of its own and sends it on a channel of capacity
\* bufferSize; an error goes to a channel of capacity 1.  Its deferred calls
\* run last registered first: file.Close(), close(errChan), close(chunks).
\* A read may return fewer bytes than the buffer holds, and may fail.
\* ------------------------------------------------------------------------
MaxChunk == 2
MaxFileLen == 3

Bytes == {"a", "b"}

\* the byte make([]byte, n) fills a slice with
ZeroByte == "0"

Contents == UNION {[1..n -> Bytes] : n \in 0..MaxFileLen}

ChunkInit ==
    /\ PathOff /\ SemOff /\ StringOff /\ SliceOff /\ LinesOff
    /\ \E size \in 0..MaxChunk, capacity \in 0..MaxBuffer, data \in Contents :
          chunkCall = [chunkSize |-> size, bufferSize |-> capacity, data |-> data]
    /\ chunkChans = [chunks |-> MakeChan, errChan |-> MakeChan]
    /\ reader = [pc |-> "open", buffer |-> <<>>, offset |-> 0, pos |-> 0,
                 n |-> 0, err |-> NoErr, chunk |-> <<>>]
    /\ ranger = [pc |-> "range", got |-> <<>>, err |-> NoErr]

ChunkFrame == UNCHANGED <<chunkCall, linesVars, pathVars, semVars, callVars>>

\* os.Open(filePath) succeeds; buffer := make([]byte, chunkSize)
ChunkOpenOk ==
    /\ reader.pc = "open"
    /\ reader' = [reader EXCEPT !.pc = "read",
                                !.buffer = [i \in 1..chunkCall.chunkSize |-> ZeroByte]]
    /\ UNCHANGED <<chunkChans, ranger>>
    /\ ChunkFrame

\* os.Open(filePath) fails
ChunkOpenFails ==
    /\ reader.pc = "open"
    /\ reader' = [reader EXCEPT !.pc = "sendErr", !.err = "open"]
    /\ UNCHANGED <<chunkChans, ranger>>
    /\ ChunkFrame

\* the fewer of two numbers
Fewer(a, b) == IF a < b THEN a ELSE b

\* the results file.Read(buffer) may have: [n, err].  A read into an empty
\* buffer returns 0 and nil; at the end of the file a read returns 0 and
\* io.EOF; before it, 1 to len(buffer) bytes; a failing read may have
\* stored some bytes
ReadResults ==
    LET room == Fewer(chunkCall.chunkSize, Len(chunkCall.data) - reader.pos) IN
    IF chunkCall.chunkSize = 0 THEN {[n |-> 0, err |-> NoErr]}
    ELSE {[n |-> k, err |-> NoErr] : k \in 1..room}
         \cup (IF room = 0 THEN {[n |-> 0, err |-> "EOF"]} ELSE {})
         \cup {[n |-> k, err |-> "read"] : k \in 0..room}

\* a chunk as its holder sees it once the buffer holds buf: a chunk whose
\* Data shares the buffer's array shows the buffer's bytes
Stored(chunk, buf) ==
    IF chunk.shared THEN [chunk EXCEPT !.Data = SubSeq(buf, 1, chunk.Size)] ELSE chunk

\* n, err := file.Read(buffer)
FileRead ==
    /\ reader.pc = "read"
    /\ \E r \in ReadResults :
          LET buf == [i \in 1..Len(reader.buffer) |->
                         IF i <= r.n THEN chunkCall.data[reader.pos + i]
                         ELSE reader.buffer[i]]
          IN  /\ reader' = [reader EXCEPT !.pc = "test", !.n = r.n, !.err = r.err,
                                          !.buffer = buf, !.pos = @ + r.n]
              /\ chunkChans' = [chunkChans EXCEPT !.chunks.buf =
                                   [i \in 1..Len(@) |-> Stored(@[i], buf)]]
              /\ ranger' = [ranger EXCEPT !.got =
                               [i \in 1..Len(@) |-> Stored(@[i], buf)]]
    /\ ChunkFrame

\* the chunk, were its Data the slice buffer[:n] itself
MakeChunk_NoCopy ==
    /\ reader.pc = "test"
    /\ reader.n > 0
    /\ reader' = [reader EXCEPT !.pc = "send",
           !.chunk = [Data |-> SubSeq(reader.buffer, 1, reader.n),
                      Offset |-> reader.offset, Size |-> reader.n, shared |-> TRUE]]
    /\ UNCHANGED <<chunkChans, ranger>>
    /\ ChunkFrame

\* if n > 0: chunk := make([]byte, n); copy(chunk, buffer[:n])
MakeChunk ==
    /\ reader.pc = "test"
    /\ reader.n > 0
    /\ reader' = [reader EXCEPT !.pc = "send",
           !.chunk = [Data |-> SubSeq(reader.buffer, 1, reader.n),
                      Offset |-> reader.offset, Size |-> reader.n, shared |-> FALSE]]
    /\ UNCHANGED <<chunkChans, ranger>>
    /\ ChunkFrame

\* n is 0: nothing is sent
NoChunk ==
    /\ reader.pc = "test"
    /\ reader.n = 0
    /\ reader' = [reader EXCEPT !.pc = "checkErr"]
    /\ UNCHANGED <<chunkChans, ranger>>
    /\ ChunkFrame

\* chunks <- Chunk{...} into a free slot of the buffer; offset += int64(n)
SendChunk ==
    /\ reader.pc = "send"
    /\ Len(chunkChans.chunks.buf) < chunkCall.bufferSize
    /\ chunkChans' = [chunkChans EXCEPT !.chunks.buf = Append(@, reader.chunk)]
    /\ reader' = [reader EXCEPT !.pc = "checkErr", !.offset = @ + reader.n]
    /\ UNCHANGED ranger
    /\ ChunkFrame

\* chunks <- Chunk{...} on an unbuffered channel: the send and the receive
\* of the range loop happen together; offset += int64(n)
HandChunk ==
    /\ reader.pc = "send"
    /\ chunkCall.bufferSize = 0
    /\ ranger.pc = "range"
    /\ ranger' = [ranger EXCEPT !.got = Append(@, reader.chunk)]
    /\ reader' = [reader EXCEPT !.pc = "checkErr", !.offset = @ + reader.n]
    /\ UNCHANGED chunkChans
    /\ ChunkFrame

\* if err == io.EOF { break }: the function returns, file.Close() runs
BreakAtEOF ==
    /\ reader.pc = "checkErr"
    /\ reader.err = "EOF"
    /\ reader' = [reader EXCEPT !.pc = "closeErrChan", !.err = NoErr]
    /\ UNCHANGED <<chunkChans, ranger>>
    /\ ChunkFrame

\* if err != nil: the error is to be sent
ReadFailed ==
    /\ reader.pc = "checkErr"
    /\ reader.err = "read"
    /\ reader' = [reader EXCEPT !.pc = "sendErr"]
    /\ UNCHANGED <<chunkChans, ranger>>
    /\ ChunkFrame

\* err is nil: the loop reads again
ReadAgain ==
    /\ reader.pc = "checkErr"
    /\ reader.err = NoErr
    /\ reader' = [reader EXCEPT !.pc = "read"]
    /\ UNCHANGED <<chunkChans, ranger>>
    /\ ChunkFrame

\* errChan <- err, then the function returns and file.Close() runs if the
\* file was opened
SendChunkErr ==
    /\ reader.pc = "sendErr"
    /\ Len(chunkChans.errChan.buf) < 1
    /\ chunkChans' = [chunkChans EXCEPT !.errChan.buf = Append(@, reader.err)]
    /\ reader' = [reader EXCEPT !.pc = "closeErrChan"]
    /\ UNCHANGED ranger
    /\ ChunkFrame

\* deferred: close(errChan)
CloseChunkErrChan ==
    /\ reader.pc = "closeErrChan"
    /\ chunkChans' = [chunkChans EXCEPT !.errChan.closed = TRUE]
    /\ reader' = [reader EXCEPT !.pc = "closeChunks"]
    /\ UNCHANGED ranger
    /\ ChunkFrame

\* deferred: close(chunks); the goroutine ends
CloseChunks ==
    /\ reader.pc = "closeChunks"
    /\ chunkChans' = [chunkChans EXCEPT !.chunks.closed = TRUE]
    /\ reader' = [reader EXCEPT !.pc = "exit"]
    /\ UNCHANGED ranger
    /\ ChunkFrame

\* for chunk := range chunks: a chunk is received from the buffer
RecvChunk ==
    /\ ranger.pc = "range"
    /\ Len(chunkChans.chunks.buf) > 0
    /\ ranger' = [ranger EXCEPT !.got = Append(@, Head(chunkChans.chunks.buf))]
    /\ chunkChans' = [chunkChans EXCEPT !.chunks.buf = Tail(@)]
    /\ UNCHANGED reader
    /\ ChunkFrame

\* for chunk := range chunks: the channel is closed and empty, the loop ends
ChunkRangeEnds ==
    /\ ranger.pc = "range"
    /\ Len(chunkChans.chunks.buf) = 0
    /\ chunkChans.chunks.closed
    /\ ranger' = [ranger EXCEPT !.pc = "recvErr"]
    /\ UNCHANGED <<chunkChans, reader>>
    /\ ChunkFrame

\* err := <-errChan: the error sent, or nil from the closed channel
RecvChunkErr ==
    /\ ranger.pc = "recvErr"
    /\ Len(chunkChans.errChan.buf) > 0 \/ chunkChans.errChan.closed
    /\ ranger' = [ranger EXCEPT
           !.pc = "done",
           !.err = IF Len(chunkChans.errChan.buf) > 0
                   THEN Head(chunkChans.errChan.buf) ELSE NoErr]
    /\ chunkChans' = [chunkChans EXCEPT !.errChan.buf = IF Len(@) > 0 THEN Tail(@) ELSE @]
    /\ UNCHANGED reader
    /\ ChunkFrame

ChunkNext ==
    \/ ChunkOpenOk
    \/ ChunkOpenFails
    \/ FileRead
    \/ MakeChunk
    \/ NoChunk
    \/ SendChunk
    \/ HandChunk
    \/ BreakAtEOF
    \/ ReadFailed
    \/ ReadAgain
    \/ SendChunkErr
    \/ CloseChunkErrChan
    \/ CloseChunks
    \/ RecvChunk
    \/ ChunkRangeEnds
    \/ RecvChunkErr

ChunkSpec == ChunkInit /\ [][ChunkNext]_vars

\* the chunks sent so far, in the order of sending: those received, then
\* those waiting in the channel
Sent == ranger.got \o chunkChans.chunks.buf

\* ------------------------------------------------------------------------
\* C25: ReadChunksChannel delivers chunks in file order with contiguous
\* offsets: the first chunk has Offset 0, each later chunk's Offset equals
\* the previous chunk's Offset plus its Size, every chunk has Size =
\* len(Data) with 1 <= Size <= chunkSize, the Data of a chunk already sent is
\* not altered by later reads (it stays the bytes of the file at its
\* Offset), and the chunks channel is closed after the last chunk or on
\* error: no chunk is sent once it is closed, and when it is closed without
\* an error the chunks cover the file.
\* ------------------------------------------------------------------------
C25_Chunks ==
    /\ \A i \in 1..Len(Sent) :
          /\ Sent[i].Offset = (IF i = 1 THEN 0 ELSE Sent[i - 1].Offset + Sent[i - 1].Size)
          /\ Sent[i].Size = Len(Sent[i].Data)
          /\ 1 <= Sent[i].Size
          /\ Sent[i].Size <= chunkCall.chunkSize
          /\ Sent[i].Data = SubSeq(chunkCall.data, Sent[i].Offset + 1,
                                   Sent[i].Offset + Sent[i].Size)
    /\ reader.pc = "exit" <=> chunkChans.chunks.closed
    /\ (chunkChans.chunks.closed /\ reader.err = NoErr) =>
          /\ Len(chunkCall.data) > 0 => Len(Sent) > 0
          /\ Len(Sent) > 0 => Last(Sent).Offset + Last(Sent).Size = Len(chunkCall.data)

C25_KeepsSent ==
    \A i \in 1..Len(Sent) : Len(Sent') >= i /\ Sent'[i] = Sent[i]

C25_ChunksInOrder == []C25_Chunks /\ [][C25_KeepsSent]_vars

\* a file of three bytes read with a buffer of two has arrived as two
\* chunks, the second at offset 2
C25_Witness ==
    /\ ranger.pc = "done"
    /\ ranger.err = NoErr
    /\ Len(chunkCall.data) = 3
    /\ Len(ranger.got) = 2
    /\ ranger.got[1].Size = 2
    /\ ranger.got[2].Offset = 2

\* ------------------------------------------------------------------------
\* C28, C29: what becomes of the goroutines when nothing can run any more
\* ------------------------------------------------------------------------
\* no goroutine can take a step and no panic has ended the program: every
\* goroutine has ended or is blocked for good
AllBlocked == Running /\ ~ENABLED SemNext

\* every Acquire call in progress asked for at most maxCount permits
DeltasFit == \A g \in Goroutines : routine[g].delta <= maxCount

\* the goroutines blocked in the loop of Acquire
InAcquire == {g \in Goroutines : routine[g].pc = "send"}

\* C28 (as claimed): under fair scheduling, if every goroutine whose Acquire
\* has returned eventually releases all its permits, then every call
\* Acquire(delta) with 1 <= delta <= maxCount eventually returns, also when
\* several goroutines call Acquire with delta > 1 concurrently: the program
\* never comes to rest with an Acquire call blocked.
C28_AcquireReturns == (AllBlocked /\ DeltasFit) => InAcquire = {}

\* every goroutine that was started is one of AcquireWithFunc
OnlyFuncs == \A g \in Goroutines : routine[g].pc # "new" => routine[g].viaFunc

\* C29 (as claimed): under fair scheduling, if every callback terminates and
\* permits are taken only through AcquireWithFunc on a semaphore with
\* maxCount >= 1, every submitted callback is eventually executed exactly
\* once and its permit is released afterwards, so the semaphore eventually
\* returns to zero held permits and no goroutine stays blocked forever: the
\* program comes to rest only with every submitted goroutine ended and the
\* channel empty.
C29_AllCallbacksRun ==
    (OnlyFuncs /\ ~ENABLED SemNext) =>
        /\ \A g \in Submitted : routine[g].pc = "end"
        /\ sem.c = 0
        /\ PermitsHeld = 0

\* C29 without the panic of sync.WaitGroup: where no panic has ended the
\* program, it comes to rest only with every submitted goroutine ended
C29_UnlessPanic ==
    (OnlyFuncs /\ AllBlocked) =>
        /\ \A g \in Submitted : routine[g].pc = "end"
        /\ sem.c = 0
        /\ PermitsHeld = 0

====
